---- MODULE Spec2Model ----
(***************************************************************************)
(* A model of the schema compatibility engine of openbindings-go:          *)
(* package schemaprofile (Normalizer, allOf flattening, the compatibility  *)
(* decider) and the canonical JSON encoder it uses as equality primitive.  *)
(*                                                                         *)
(* Go maps are reference values: the model keeps them in a heap (a         *)
(* sequence of map contents, addressed by position), so that sharing       *)
(* between the caller's documents and the values the normalizer builds is  *)
(* visible.  Slices are never written in place by the package and are      *)
(* modelled as values.  Ranging over a Go map visits the entries in an     *)
(* unspecified order: every operator that ranges over a map returns the    *)
(* SET of outcomes of all visiting orders.                                 *)
(***************************************************************************)
EXTENDS Integers, Sequences, FiniteSets, TLC

VARIABLES
  heap,      \* the Go heap: heap[a] is the content of the map at address a
  Root,      \* Normalizer.Root (a JSON value; maps are heap references)
  Base,      \* Normalizer.Base ("" when nil)
  Fetch,     \* Normalizer.Fetch (TRUE when a fetcher is configured)
  target,    \* the schema the caller passes as schema / target
  candidate, \* the schema the caller passes as candidate
  refStack,  \* refStack[i]: Normalizer.refStack of instance i
  pc,        \* pc[i]: "idle" before the top-level call of instance i, "done" after
  op,        \* op[i]: the method called on instance i and its schema argument
  result,    \* result[i]: what the call on instance i returned
  trace,     \* trace[i]: resolveRef / cleanup / fetch events of that call, in order
  heap0,     \* heap0[0]: the heap as the caller built it; heap0[i]: at the call of i
  document,  \* the JSON document a caller of canonicaljson.Marshal holds
  calls      \* the calls of canonicaljson.Marshal made so far, with their results

vars == <<heap, Root, Base, Fetch, target, candidate, refStack, pc, op, result, trace, heap0,
          document, calls>>

----------------------------------------------------------------------------
(* JSON values.  Every value is a record of the same shape, so that any two *)
(* values can be compared.                                                  *)
(*   t = "null" | "bool" | "num" | "str" | "arr" | "obj" | "ref"            *)
(* "obj" carries its members inline (a tree); "ref" is a Go map held in the *)
(* heap at address n.                                                       *)

Null == [t |-> "null", s |-> "", n |-> 0, e |-> <<>>, m |-> <<>>]
Bool(b) == [t |-> "bool", s |-> "", n |-> IF b THEN 1 ELSE 0, e |-> <<>>, m |-> <<>>]
Num(i) == [t |-> "num", s |-> "", n |-> i, e |-> <<>>, m |-> <<>>]
Str(x) == [t |-> "str", s |-> x, n |-> 0, e |-> <<>>, m |-> <<>>]
Arr(q) == [t |-> "arr", s |-> "", n |-> 0, e |-> q, m |-> <<>>]
Obj(f) == [t |-> "obj", s |-> "", n |-> 0, e |-> <<>>, m |-> f]
Ref(a) == [t |-> "ref", s |-> "", n |-> a, e |-> <<>>, m |-> <<>>]

EmptyMap == <<>>
Put(f, k, v) == [x \in (DOMAIN f) \cup {k} |-> IF x = k THEN v ELSE f[x]]
Del(f, k) == [x \in (DOMAIN f) \ {k} |-> f[x]]
HasKey(f, k) == k \in DOMAIN f

\* One-member and two-member objects, for writing documents down.
O1(k, v) == Obj(Put(EmptyMap, k, v))
O2(k1, v1, k2, v2) == Obj(Put(Put(EmptyMap, k1, v1), k2, v2))

----------------------------------------------------------------------------
(* Strings.  TLA+ strings have no order; the code points of every string   *)
(* the model uses are listed here, and comparisons work on them.           *)

Runes(s) ==
  CASE
       s = "" -> <<>>
    [] s = " " -> <<32>>
    [] s = "1" -> <<49>>
    [] s = "https://example.com/loop.json#/a" -> <<104, 116, 116, 112, 115, 58, 47, 47, 101, 120, 97, 109, 112, 108, 101, 46, 99, 111, 109, 47, 108, 111, 111, 112, 46, 106, 115, 111, 110, 35, 47, 97>>
    [] s = "https://example.com/garbled.json#/a" -> <<104, 116, 116, 112, 115, 58, 47, 47, 101, 120, 97, 109, 112, 108, 101, 46, 99, 111, 109, 47, 103, 97, 114, 98, 108, 101, 100, 46, 106, 115, 111, 110, 35, 47, 97>>
    [] s = "$ref" -> <<36, 114, 101, 102>>
    [] s = "$defs" -> <<36, 100, 101, 102, 115>>
    [] s = "allOf" -> <<97, 108, 108, 79, 102>>
    [] s = "type" -> <<116, 121, 112, 101>>
    [] s = "enum" -> <<101, 110, 117, 109>>
    [] s = "const" -> <<99, 111, 110, 115, 116>>
    [] s = "properties" -> <<112, 114, 111, 112, 101, 114, 116, 105, 101, 115>>
    [] s = "required" -> <<114, 101, 113, 117, 105, 114, 101, 100>>
    [] s = "additionalProperties" -> <<97, 100, 100, 105, 116, 105, 111, 110, 97, 108, 80, 114, 111, 112, 101, 114, 116, 105, 101, 115>>
    [] s = "items" -> <<105, 116, 101, 109, 115>>
    [] s = "oneOf" -> <<111, 110, 101, 79, 102>>
    [] s = "anyOf" -> <<97, 110, 121, 79, 102>>
    [] s = "minimum" -> <<109, 105, 110, 105, 109, 117, 109>>
    [] s = "maximum" -> <<109, 97, 120, 105, 109, 117, 109>>
    [] s = "exclusiveMinimum" -> <<101, 120, 99, 108, 117, 115, 105, 118, 101, 77, 105, 110, 105, 109, 117, 109>>
    [] s = "exclusiveMaximum" -> <<101, 120, 99, 108, 117, 115, 105, 118, 101, 77, 97, 120, 105, 109, 117, 109>>
    [] s = "minLength" -> <<109, 105, 110, 76, 101, 110, 103, 116, 104>>
    [] s = "maxLength" -> <<109, 97, 120, 76, 101, 110, 103, 116, 104>>
    [] s = "minItems" -> <<109, 105, 110, 73, 116, 101, 109, 115>>
    [] s = "maxItems" -> <<109, 97, 120, 73, 116, 101, 109, 115>>
    [] s = "title" -> <<116, 105, 116, 108, 101>>
    [] s = "description" -> <<100, 101, 115, 99, 114, 105, 112, 116, 105, 111, 110>>
    [] s = "examples" -> <<101, 120, 97, 109, 112, 108, 101, 115>>
    [] s = "default" -> <<100, 101, 102, 97, 117, 108, 116>>
    [] s = "deprecated" -> <<100, 101, 112, 114, 101, 99, 97, 116, 101, 100>>
    [] s = "readOnly" -> <<114, 101, 97, 100, 79, 110, 108, 121>>
    [] s = "writeOnly" -> <<119, 114, 105, 116, 101, 79, 110, 108, 121>>
    [] s = "$schema" -> <<36, 115, 99, 104, 101, 109, 97>>
    [] s = "pattern" -> <<112, 97, 116, 116, 101, 114, 110>>
    [] s = "format" -> <<102, 111, 114, 109, 97, 116>>
    [] s = "string" -> <<115, 116, 114, 105, 110, 103>>
    [] s = "number" -> <<110, 117, 109, 98, 101, 114>>
    [] s = "integer" -> <<105, 110, 116, 101, 103, 101, 114>>
    [] s = "object" -> <<111, 98, 106, 101, 99, 116>>
    [] s = "array" -> <<97, 114, 114, 97, 121>>
    [] s = "boolean" -> <<98, 111, 111, 108, 101, 97, 110>>
    [] s = "null" -> <<110, 117, 108, 108>>
    [] s = "p" -> <<112>>
    [] s = "q" -> <<113>>
    [] s = "x" -> <<120>>
    [] s = "y" -> <<121>>
    [] s = "a" -> <<97>>
    [] s = "b" -> <<98>>
    [] s = "c" -> <<99>>
    [] s = "t" -> <<116>>
    [] s = "#/a" -> <<35, 47, 97>>
    [] s = "#/b" -> <<35, 47, 98>>
    [] s = "#/c" -> <<35, 47, 99>>
    [] s = "#/nope" -> <<35, 47, 110, 111, 112, 101>>
    [] s = "#" -> <<35>>
    [] s = "#/a/items" -> <<35, 47, 97, 47, 105, 116, 101, 109, 115>>
    [] s = "#/b/properties/p/properties/y" -> <<35, 47, 98, 47, 112, 114, 111, 112, 101, 114, 116, 105, 101, 115, 47, 112, 47, 112, 114, 111, 112, 101, 114, 116, 105, 101, 115, 47, 121>>
    [] s = "other.json#/x" -> <<111, 116, 104, 101, 114, 46, 106, 115, 111, 110, 35, 47, 120>>
    [] s = "https://example.com/s.json#/Foo" -> <<104, 116, 116, 112, 115, 58, 47, 47, 101, 120, 97, 109, 112, 108, 101, 46, 99, 111, 109, 47, 115, 46, 106, 115, 111, 110, 35, 47, 70, 111, 111>>
    [] s = "https://example.com/bad.json#/Foo" -> <<104, 116, 116, 112, 115, 58, 47, 47, 101, 120, 97, 109, 112, 108, 101, 46, 99, 111, 109, 47, 98, 97, 100, 46, 106, 115, 111, 110, 35, 47, 70, 111, 111>>
    [] s = "%zz" -> <<37, 122, 122>>
    [] s = "#frag" -> <<35, 102, 114, 97, 103>>
    [] s = "#/a/oneOf/0" -> <<35, 47, 97, 47, 111, 110, 101, 79, 102, 47, 48>>
    [] s = "#/a/properties/p" -> <<35, 47, 97, 47, 112, 114, 111, 112, 101, 114, 116, 105, 101, 115, 47, 112>>
    [] s = "#/c/properties/p" -> <<35, 47, 99, 47, 112, 114, 111, 112, 101, 114, 116, 105, 101, 115, 47, 112>>
    [] s = "https://example.com/base/other.json#/x" -> <<104, 116, 116, 112, 115, 58, 47, 47, 101, 120, 97, 109, 112, 108, 101, 46, 99, 111, 109, 47, 98, 97, 115, 101, 47, 111, 116, 104, 101, 114, 46, 106, 115, 111, 110, 35, 47, 120>>

\* Lexicographic order of two sequences of numbers; a proper prefix is smaller.
\* With bytes this is Go's < on strings.
RECURSIVE LexLess(_, _)
LexLess(a, b) ==
  IF b = <<>> THEN FALSE
  ELSE IF a = <<>> THEN TRUE
  ELSE IF Head(a) = Head(b) THEN LexLess(Tail(a), Tail(b))
  ELSE Head(a) < Head(b)

\* UTF-8 bytes of a string of code points (the Go string itself).
RECURSIVE utf8(_)
utf8(rs) ==
  IF rs = <<>> THEN <<>>
  ELSE LET r == Head(rs)
           b == IF r < 128 THEN <<r>>
                ELSE IF r < 2048 THEN <<192 + (r \div 64), 128 + (r % 64)>>
                ELSE IF r < 65536
                  THEN <<224 + (r \div 4096), 128 + ((r \div 64) % 64), 128 + (r % 64)>>
                ELSE <<240 + (r \div 262144), 128 + ((r \div 4096) % 64),
                       128 + ((r \div 64) % 64), 128 + (r % 64)>>
       IN b \o utf8(Tail(rs))

StrLess(a, b) == LexLess(utf8(Runes(a)), utf8(Runes(b)))

\* strings.TrimSpace(s) == ""
TrimSpaceIsEmpty(s) == \A i \in 1..Len(Runes(s)) : Runes(s)[i] \in {9, 10, 11, 12, 13, 32}

\* A set of strings as the sequence sort.Slice leaves it in (ascending, Go's <).
RECURSIVE SortStrings(_)
SortStrings(S) ==
  IF S = {} THEN <<>>
  ELSE LET lo == CHOOSE x \in S : \A y \in S \ {x} : StrLess(x, y)
       IN <<lo>> \o SortStrings(S \ {lo})

----------------------------------------------------------------------------
(* Package canonicaljson: RFC 8785 encoding.  Output is a sequence of       *)
(* bytes; an encoding is a record [ok, b] (ok = FALSE: Marshal returned an  *)
(* error).                                                                  *)

\* The values json.Decoder builds with UseNumber: a string is given by its
\* code points, a map[string]any is keyed by the code points of its names,
\* a json.Number is the literal it was read from.
Text(rs) == [t |-> "text", s |-> "", n |-> 0, e |-> rs, m |-> <<>>]
Map(f) == [t |-> "map", s |-> "", n |-> 0, e |-> <<>>, m |-> f]
JSONNumber(lit) == [t |-> "lit", s |-> "", n |-> 0, e |-> lit, m |-> <<>>]

\* A float64: n * 10^(-scale); NaN and the infinities have s = "inf".  A
\* whole number below 10^9 is Num(i) (scale 0); otherwise n has no trailing
\* zero.
Float(n, scale) ==
  [t |-> "num", s |-> "", n |-> n, e |-> IF scale = 0 THEN <<>> ELSE <<scale>>, m |-> <<>>]
Inf == [t |-> "num", s |-> "inf", n |-> 0, e |-> <<>>, m |-> <<>>]
scaleOf(f) == IF f.e = <<>> THEN 0 ELSE f.e[1]

\* A comparison by code points: what utf16Encode is not.
codePointsAsUnits(rs) == rs

\* utf16.Encode: the UTF-16 code units of a string of code points.
RECURSIVE utf16Encode(_)
utf16Encode(rs) ==
  IF rs = <<>> THEN <<>>
  ELSE LET r == Head(rs)
           u == IF r < 65536 THEN <<r>>
                ELSE <<55296 + ((r - 65536) \div 1024), 56320 + ((r - 65536) % 1024)>>
       IN u \o utf16Encode(Tail(rs))

\* lessUTF16 compares code-unit sequences; it is the order LexLess defines.
lessUTF16(a, b) == LexLess(a, b)

HexDigit(d) == IF d < 10 THEN 48 + d ELSE 87 + d

\* writeJCSString without its escapes, and without the five shorthand
\* escapes: what escapeRune is not.
escapeRuneNever(r) == utf8(<<r>>)

escapeRuneNoShorthand(r) ==
  IF r = 92 THEN <<92, 92>>
  ELSE IF r = 34 THEN <<92, 34>>
  ELSE IF r <= 31 THEN <<92, 117, 48, 48, HexDigit(r \div 16), HexDigit(r % 16)>>
  ELSE utf8(<<r>>)

\* The bytes writeJCSString emits for one code point.
escapeRune(r) ==
  IF r = 92 THEN <<92, 92>>
  ELSE IF r = 34 THEN <<92, 34>>
  ELSE IF r = 8 THEN <<92, 98>>
  ELSE IF r = 9 THEN <<92, 116>>
  ELSE IF r = 10 THEN <<92, 110>>
  ELSE IF r = 12 THEN <<92, 102>>
  ELSE IF r = 13 THEN <<92, 114>>
  ELSE IF r <= 31 THEN <<92, 117, 48, 48, HexDigit(r \div 16), HexDigit(r % 16)>>
  ELSE utf8(<<r>>)

RECURSIVE escapeRunes(_)
escapeRunes(rs) == IF rs = <<>> THEN <<>> ELSE escapeRune(Head(rs)) \o escapeRunes(Tail(rs))

\* writeJCSString of the string with code points rs.
writeJCSString(rs) == <<34>> \o escapeRunes(rs) \o <<34>>

RECURSIVE Digits(_)
Digits(i) == IF i < 10 THEN <<48 + i>> ELSE Digits(i \div 10) \o <<48 + (i % 10)>>

RECURSIVE Zeros(_)
Zeros(k) == IF k <= 0 THEN <<>> ELSE <<48>> \o Zeros(k - 1)

\* strconv.FormatFloat(f, 'f', -1, 64) of the number with digits ds and
\* point digits before the decimal point.
formatDecimal(ds, point) ==
  IF point >= Len(ds) THEN ds \o Zeros(point - Len(ds))
  ELSE IF point > 0 THEN SubSeq(ds, 1, point) \o <<46>> \o SubSeq(ds, point + 1, Len(ds))
  ELSE <<48, 46>> \o Zeros(0 - point) \o ds

\* strconv.FormatFloat(f, 'e', -1, 64): d.ddde+XX with at least two
\* exponent digits.
formatExponent(ds, point) ==
  LET x == point - 1
      ax == IF x < 0 THEN 0 - x ELSE x
  IN <<Head(ds)>> \o (IF Len(ds) > 1 THEN <<46>> \o Tail(ds) ELSE <<>>)
     \o <<101, IF x < 0 THEN 45 ELSE 43>> \o (IF ax < 10 THEN <<48>> ELSE <<>>) \o Digits(ax)

RECURSIVE trimZeros(_, _)
trimZeros(exp, j) ==
  IF j < Len(exp) /\ exp[j] = 48 THEN trimZeros(exp, j + 1) ELSE SubSeq(exp, j, Len(exp))

IndexByte(s, c) == IF \E i \in 1..Len(s) : s[i] = c
                     THEN CHOOSE i \in 1..Len(s) : s[i] = c /\ \A j \in 1..(i - 1) : s[j] # c
                     ELSE 0

\* normalizeExponent: the exponent digits without leading zeros.
normalizeExponent(s) ==
  LET i == IndexByte(s, 101) IN
  IF i = 0 \/ i + 1 >= Len(s) THEN s
  ELSE SubSeq(s, 1, i + 1) \o trimZeros(SubSeq(s, i + 2, Len(s)), 1)

\* formatJCSFloat64.  The digits of a number with at most 15 significant
\* digits are the shortest that read back as the same double.
formatJCSFloat64(f) ==
  IF f.s = "inf" THEN [ok |-> FALSE, b |-> <<>>]
  ELSE IF f.n = 0 THEN [ok |-> TRUE, b |-> <<48>>]
  ELSE LET ds == Digits(IF f.n < 0 THEN 0 - f.n ELSE f.n)
           point == Len(ds) - scaleOf(f)
           sign == IF f.n < 0 THEN <<45>> ELSE <<>>
       IN [ok |-> TRUE,
           b |-> sign \o (IF point > 21 \/ point < -5
                            THEN normalizeExponent(formatExponent(ds, point))
                            ELSE formatDecimal(ds, point))]

\* The byte at position i of b; -1 past the end.
At(b, i) == IF i >= 1 /\ i <= Len(b) THEN b[i] ELSE -1

isDigit(c) == c >= 48 /\ c <= 57

RECURSIVE skipDigits(_, _)
skipDigits(b, i) == IF isDigit(At(b, i)) THEN skipDigits(b, i + 1) ELSE i

\* The number the digits b[i..j-1] spell, after the digits that gave acc.
RECURSIVE digitsValue(_, _, _, _)
digitsValue(b, i, j, acc) ==
  IF i >= j THEN acc ELSE digitsValue(b, i + 1, j, acc * 10 + (b[i] - 48))

RECURSIVE Pow10(_)
Pow10(k) == IF k <= 0 THEN 1 ELSE 10 * Pow10(k - 1)

RECURSIVE stripZeros(_, _)
stripZeros(n, scale) ==
  IF n % 10 = 0 THEN stripZeros(n \div 10, scale - 1) ELSE [n |-> n, scale |-> scale]

\* The double nearest to n * 10^(-scale), n > 0: out of range above
\* 1e309, zero below 1e-324.
nearestFloat(n, scale, neg) ==
  LET r == stripZeros(n, scale)
      point == Len(Digits(r.n)) - r.scale
      whole == r.scale <= 0 /\ point <= 9
      m == IF whole THEN r.n * Pow10(0 - r.scale) ELSE r.n
  IN IF point > 309 THEN [ok |-> FALSE, v |-> Inf]
     ELSE IF point < -323 THEN [ok |-> TRUE, v |-> Float(0, 0)]
     ELSE [ok |-> TRUE, v |-> Float(IF neg THEN 0 - m ELSE m, IF whole THEN 0 ELSE r.scale)]

\* strconv.ParseFloat(s, 64) of a JSON number literal (at most 9 digits of
\* mantissa): [ok, v].
ParseFloat(lit) ==
  LET neg == At(lit, 1) = 45
      i1 == IF neg THEN 2 ELSE 1
      i2 == skipDigits(lit, i1)
      i3 == IF At(lit, i2) = 46 THEN skipDigits(lit, i2 + 1) ELSE i2
      hasExp == At(lit, i3) \in {101, 69}
      i4 == IF At(lit, i3 + 1) \in {43, 45} THEN i3 + 2 ELSE i3 + 1
      ex == IF ~hasExp THEN 0
            ELSE IF At(lit, i3 + 1) = 45 THEN 0 - digitsValue(lit, i4, Len(lit) + 1, 0)
            ELSE digitsValue(lit, i4, Len(lit) + 1, 0)
      mant == digitsValue(lit, i2 + 1, i3, digitsValue(lit, i1, i2, 0))
      frac == IF i3 > i2 THEN i3 - i2 - 1 ELSE 0
  IN IF mant = 0 THEN [ok |-> TRUE, v |-> Float(0, 0)]
     ELSE nearestFloat(mant, frac - ex, neg)

formatJCSNumber(lit) ==
  IF ParseFloat(lit).ok THEN formatJCSFloat64(ParseFloat(lit).v) ELSE [ok |-> FALSE, b |-> <<>>]

\* The member names of a map in the order writeJCS emits them: sort.Slice
\* with lessUTF16 on the code units of the names.
RECURSIVE sortKeys(_)
sortKeys(S) ==
  IF S = {} THEN <<>>
  ELSE LET lo == CHOOSE x \in S :
                   \A y \in S \ {x} : lessUTF16(utf16Encode(x), utf16Encode(y))
       IN <<lo>> \o sortKeys(S \ {lo})

RECURSIVE writeJCS(_)
RECURSIVE writeJCSItems(_, _)
RECURSIVE writeJCSMembers(_, _, _)
writeJCS(v) ==
  CASE v.t = "null" -> [ok |-> TRUE, b |-> <<110, 117, 108, 108>>]
    [] v.t = "bool" -> [ok |-> TRUE, b |-> IF v.n = 1 THEN <<116, 114, 117, 101>>
                                                     ELSE <<102, 97, 108, 115, 101>>]
    [] v.t = "text" -> [ok |-> TRUE, b |-> writeJCSString(v.e)]
    [] v.t = "lit" -> formatJCSNumber(v.e)
    [] v.t = "num" -> formatJCSFloat64(v)
    [] v.t = "arr" -> LET r == writeJCSItems(v.e, 1)
                      IN [ok |-> r.ok, b |-> <<91>> \o r.b \o <<93>>]
    [] v.t = "map" -> LET r == writeJCSMembers(v.m, sortKeys(DOMAIN v.m), 1)
                      IN [ok |-> r.ok, b |-> <<123>> \o r.b \o <<125>>]
    [] OTHER -> [ok |-> FALSE, b |-> <<>>]

writeJCSItems(q, i) ==
  IF i > Len(q) THEN [ok |-> TRUE, b |-> <<>>]
  ELSE LET x == writeJCS(q[i])
           r == writeJCSItems(q, i + 1)
       IN [ok |-> x.ok /\ r.ok,
           b |-> (IF i > 1 THEN <<44>> ELSE <<>>) \o x.b \o r.b]

writeJCSMembers(f, keys, i) ==
  IF i > Len(keys) THEN [ok |-> TRUE, b |-> <<>>]
  ELSE LET x == writeJCS(f[keys[i]])
           r == writeJCSMembers(f, keys, i + 1)
       IN [ok |-> x.ok /\ r.ok,
           b |-> (IF i > 1 THEN <<44>> ELSE <<>>) \o writeJCSString(keys[i]) \o <<58>>
                 \o x.b \o r.b]

----------------------------------------------------------------------------
(* json.Decoder, as Marshal uses it: the JSON text is scanned into a parse  *)
(* tree that keeps the members of an object in the order of the text, and   *)
(* the tree is built into Go values.                                        *)

\* An object of the text: its members in order; a member: name and value.
Members(q) == [t |-> "members", s |-> "", n |-> 0, e |-> q, m |-> <<>>]
Member(name, v) == [t |-> "member", s |-> "", n |-> 0, e |-> name, m |-> <<v>>]

Fail == [ok |-> FALSE, v |-> Null, i |-> 0]
Got(v, i) == [ok |-> TRUE, v |-> v, i |-> i]

isSpace(c) == c \in {32, 9, 13, 10}

RECURSIVE skipSpace(_, _)
skipSpace(b, i) == IF isSpace(At(b, i)) THEN skipSpace(b, i + 1) ELSE i

hexValue(c) ==
  IF c >= 48 /\ c <= 57 THEN c - 48
  ELSE IF c >= 97 /\ c <= 102 THEN c - 87
  ELSE IF c >= 65 /\ c <= 70 THEN c - 55
  ELSE -1

\* getu4: the code unit of the escape \uXXXX at position i, or -1.
getu4(b, i) ==
  IF At(b, i) # 92 \/ At(b, i + 1) # 117
       \/ \E j \in 2..5 : hexValue(At(b, i + j)) < 0
    THEN -1
    ELSE hexValue(b[i + 2]) * 4096 + hexValue(b[i + 3]) * 256
         + hexValue(b[i + 4]) * 16 + hexValue(b[i + 5])

ReplacementChar == 65533

\* utf16.DecodeRune
decodeSurrogates(r1, r2) ==
  IF r1 >= 55296 /\ r1 < 56320 /\ r2 >= 56320 /\ r2 < 57344
    THEN (r1 - 55296) * 1024 + (r2 - 56320) + 65536
    ELSE ReplacementChar

isContinuation(c) == c >= 128 /\ c <= 191

\* utf8.DecodeRune at position i: the code point and the bytes it takes; a
\* byte that starts no valid encoding reads as U+FFFD of size 1.
decodeRune(b, i) ==
  LET c0 == At(b, i)
      c1 == At(b, i + 1)
      c2 == At(b, i + 2)
      c3 == At(b, i + 3)
      bad == [r |-> ReplacementChar, size |-> 1]
  IN IF c0 < 128 THEN [r |-> c0, size |-> 1]
     ELSE IF c0 >= 194 /\ c0 <= 223
       THEN IF isContinuation(c1) THEN [r |-> (c0 - 192) * 64 + (c1 - 128), size |-> 2]
            ELSE bad
     ELSE IF c0 >= 224 /\ c0 <= 239
       THEN IF isContinuation(c1) /\ isContinuation(c2)
                 /\ (c0 = 224 => c1 >= 160) /\ (c0 = 237 => c1 <= 159)
              THEN [r |-> (c0 - 224) * 4096 + (c1 - 128) * 64 + (c2 - 128), size |-> 3]
              ELSE bad
     ELSE IF c0 >= 240 /\ c0 <= 244
       THEN IF isContinuation(c1) /\ isContinuation(c2) /\ isContinuation(c3)
                 /\ (c0 = 240 => c1 >= 144) /\ (c0 = 244 => c1 <= 143)
              THEN [r |-> (c0 - 240) * 262144 + (c1 - 128) * 4096 + (c2 - 128) * 64
                            + (c3 - 128),
                    size |-> 4]
              ELSE bad
     ELSE bad

\* The code point of a one-letter escape, or -1.
shortEscape(c) ==
  CASE c \in {34, 92, 47} -> c
    [] c = 98 -> 8
    [] c = 102 -> 12
    [] c = 110 -> 10
    [] c = 114 -> 13
    [] c = 116 -> 9
    [] OTHER -> -1

\* A string literal from the byte after its opening quote: the scanner
\* rejects control characters and unknown escapes, unquote decodes escapes
\* and UTF-8.
RECURSIVE unquote(_, _, _)
unquote(b, i, acc) ==
  IF At(b, i) < 32 THEN Fail
  ELSE IF At(b, i) = 34 THEN Got(Text(acc), i + 1)
  ELSE IF At(b, i) # 92
    THEN unquote(b, i + decodeRune(b, i).size, Append(acc, decodeRune(b, i).r))
  ELSE IF shortEscape(At(b, i + 1)) >= 0
    THEN unquote(b, i + 2, Append(acc, shortEscape(At(b, i + 1))))
  ELSE IF getu4(b, i) < 0 THEN Fail
  ELSE IF getu4(b, i) < 55296 \/ getu4(b, i) >= 57344
    THEN unquote(b, i + 6, Append(acc, getu4(b, i)))
  ELSE IF decodeSurrogates(getu4(b, i), getu4(b, i + 6)) # ReplacementChar
    THEN unquote(b, i + 12, Append(acc, decodeSurrogates(getu4(b, i), getu4(b, i + 6))))
  ELSE unquote(b, i + 6, Append(acc, ReplacementChar))

\* The end of the number literal that starts at i, or 0.
scanNumber(b, i) ==
  LET i1 == IF At(b, i) = 45 THEN i + 1 ELSE i
      i2 == IF At(b, i1) = 48 THEN i1 + 1
            ELSE IF isDigit(At(b, i1)) THEN skipDigits(b, i1)
            ELSE 0
      i3 == IF i2 = 0 \/ At(b, i2) # 46 THEN i2
            ELSE IF isDigit(At(b, i2 + 1)) THEN skipDigits(b, i2 + 1)
            ELSE 0
      j == IF At(b, i3 + 1) \in {43, 45} THEN i3 + 2 ELSE i3 + 1
  IN IF i3 = 0 \/ At(b, i3) \notin {101, 69} THEN i3
     ELSE IF isDigit(At(b, j)) THEN skipDigits(b, j)
     ELSE 0

literalAt(b, i, word) == i + Len(word) - 1 <= Len(b) /\ SubSeq(b, i, i + Len(word) - 1) = word

RECURSIVE parseValue(_, _)
RECURSIVE parseItems(_, _, _)
RECURSIVE parseMembers(_, _, _)
RECURSIVE parseMember(_, _, _)
RECURSIVE parseMemberValue(_, _, _, _)

\* The value whose first byte is at i.
parseValue(b, i) ==
  CASE At(b, i) = 123 ->
         IF At(b, skipSpace(b, i + 1)) = 125 THEN Got(Members(<<>>), skipSpace(b, i + 1) + 1)
         ELSE parseMembers(b, skipSpace(b, i + 1), <<>>)
    [] At(b, i) = 91 ->
         IF At(b, skipSpace(b, i + 1)) = 93 THEN Got(Arr(<<>>), skipSpace(b, i + 1) + 1)
         ELSE parseItems(b, parseValue(b, skipSpace(b, i + 1)), <<>>)
    [] At(b, i) = 34 -> unquote(b, i + 1, <<>>)
    [] At(b, i) = 116 ->
         IF literalAt(b, i, <<116, 114, 117, 101>>) THEN Got(Bool(TRUE), i + 4) ELSE Fail
    [] At(b, i) = 102 ->
         IF literalAt(b, i, <<102, 97, 108, 115, 101>>) THEN Got(Bool(FALSE), i + 5) ELSE Fail
    [] At(b, i) = 110 ->
         IF literalAt(b, i, <<110, 117, 108, 108>>) THEN Got(Null, i + 4) ELSE Fail
    [] At(b, i) = 45 \/ isDigit(At(b, i)) ->
         IF scanNumber(b, i) = 0 THEN Fail
         ELSE Got(JSONNumber(SubSeq(b, i, scanNumber(b, i) - 1)), scanNumber(b, i))
    [] OTHER -> Fail

\* x is the element just read; acc the elements before it.
parseItems(b, x, acc) ==
  IF ~x.ok THEN Fail
  ELSE IF At(b, skipSpace(b, x.i)) = 44
    THEN parseItems(b, parseValue(b, skipSpace(b, skipSpace(b, x.i) + 1)), Append(acc, x.v))
  ELSE IF At(b, skipSpace(b, x.i)) = 93
    THEN Got(Arr(Append(acc, x.v)), skipSpace(b, x.i) + 1)
  ELSE Fail

\* The members from the one whose name starts at i; acc the members before.
parseMembers(b, i, acc) ==
  IF At(b, i) # 34 THEN Fail
  ELSE parseMember(b, unquote(b, i + 1, <<>>), acc)

\* name is the member name just read.
parseMember(b, name, acc) ==
  IF ~name.ok \/ At(b, skipSpace(b, name.i)) # 58 THEN Fail
  ELSE parseMemberValue(b, name.v.e, parseValue(b, skipSpace(b, skipSpace(b, name.i) + 1)), acc)

\* x is the value just read of the member called name.
parseMemberValue(b, name, x, acc) ==
  IF ~x.ok THEN Fail
  ELSE IF At(b, skipSpace(b, x.i)) = 44
    THEN parseMembers(b, skipSpace(b, skipSpace(b, x.i) + 1), Append(acc, Member(name, x.v)))
  ELSE IF At(b, skipSpace(b, x.i)) = 125
    THEN Got(Members(Append(acc, Member(name, x.v))), skipSpace(b, x.i) + 1)
  ELSE Fail

\* x is the first value of the text b: text after it is an error ("invalid
\* JSON: trailing data", or the decoder's own error).
wholeDocument(b, x) ==
  IF ~x.ok \/ skipSpace(b, x.i) <= Len(b) THEN Fail ELSE x

parseDocument(b) == wholeDocument(b, parseValue(b, skipSpace(b, 1)))

\* The Go value of a parse tree: the members are stored into a new map in
\* the order of the text, so the last member of a name is the one kept.
RECURSIVE build(_)
RECURSIVE buildMap(_, _)

\* A decoder that stores the first member only: what buildMap is not.
buildMapFirstOnly(q, f) ==
  IF q = <<>> THEN f ELSE Put(f, Head(q).e, build(Head(q).m[1]))

build(p) ==
  IF p.t = "members" THEN Map(buildMap(p.e, EmptyMap))
  ELSE IF p.t = "arr" THEN Arr([i \in 1..Len(p.e) |-> build(p.e[i])])
  ELSE p

buildMap(q, f) ==
  IF q = <<>> THEN f ELSE buildMap(Tail(q), Put(f, Head(q).e, build(Head(q).m[1])))

\* dec.Decode(&anyVal) followed by the check for trailing data: [ok, v].
built(p) == IF p.ok THEN [ok |-> TRUE, v |-> build(p.v)] ELSE [ok |-> FALSE, v |-> Null]

Decode(b) == built(parseDocument(b))

----------------------------------------------------------------------------
(* json.Marshal, which Marshal applies to a Go value that is not already   *)
(* JSON text.                                                               *)

\* The Go value of a value written with the literals of this module.
RECURSIVE Runified(_)
Runified(v) ==
  CASE v.t = "str" -> Text(Runes(v.s))
    [] v.t = "obj" ->
         Map([r \in { Runes(k) : k \in DOMAIN v.m } |->
                Runified(v.m[CHOOSE k \in DOMAIN v.m : Runes(k) = r])])
    [] v.t = "arr" -> Arr([i \in 1..Len(v.e) |-> Runified(v.e[i])])
    [] OTHER -> v

Hex4(r) ==
  <<92, 117, HexDigit(r \div 4096), HexDigit((r \div 256) % 16), HexDigit((r \div 16) % 16),
    HexDigit(r % 16)>>

\* The bytes the encoder writes for one code point of a string (HTML
\* escaping is on by default).
goEscapeRune(r) ==
  IF r = 92 THEN <<92, 92>>
  ELSE IF r = 34 THEN <<92, 34>>
  ELSE IF r = 8 THEN <<92, 98>>
  ELSE IF r = 9 THEN <<92, 116>>
  ELSE IF r = 10 THEN <<92, 110>>
  ELSE IF r = 12 THEN <<92, 102>>
  ELSE IF r = 13 THEN <<92, 114>>
  ELSE IF r < 32 \/ r \in {60, 62, 38, 8232, 8233} THEN Hex4(r)
  ELSE utf8(<<r>>)

RECURSIVE goEscapeRunes(_)
goEscapeRunes(rs) ==
  IF rs = <<>> THEN <<>> ELSE goEscapeRune(Head(rs)) \o goEscapeRunes(Tail(rs))

goString(rs) == <<34>> \o goEscapeRunes(rs) \o <<34>>

\* The names of a map in the order the encoder writes them (Go's < on
\* strings).
RECURSIVE sortNames(_)
sortNames(S) ==
  IF S = {} THEN <<>>
  ELSE LET lo == CHOOSE x \in S : \A y \in S \ {x} : LexLess(utf8(x), utf8(y))
       IN <<lo>> \o sortNames(S \ {lo})

\* A json.Number is written as it is; a float64 of the model is a whole
\* number or not finite (a literal beyond the range of float64).
goNumber(v) ==
  IF v.t = "lit" THEN v.e
  ELSE IF v.s = "inf" THEN <<49, 101, 57, 57, 57>>
  ELSE (IF v.n < 0 THEN <<45>> ELSE <<>>) \o Digits(IF v.n < 0 THEN 0 - v.n ELSE v.n)

RECURSIVE jsonMarshal(_)
RECURSIVE jsonMarshalItems(_, _)
RECURSIVE jsonMarshalMembers(_, _, _)
jsonMarshal(v) ==
  CASE v.t = "null" -> <<110, 117, 108, 108>>
    [] v.t = "bool" -> IF v.n = 1 THEN <<116, 114, 117, 101>> ELSE <<102, 97, 108, 115, 101>>
    [] v.t = "text" -> goString(v.e)
    [] v.t \in {"lit", "num"} -> goNumber(v)
    [] v.t = "arr" -> <<91>> \o jsonMarshalItems(v.e, 1) \o <<93>>
    [] v.t = "map" -> <<123>> \o jsonMarshalMembers(v.m, sortNames(DOMAIN v.m), 1) \o <<125>>

jsonMarshalItems(q, i) ==
  IF i > Len(q) THEN <<>>
  ELSE (IF i > 1 THEN <<44>> ELSE <<>>) \o jsonMarshal(q[i]) \o jsonMarshalItems(q, i + 1)

jsonMarshalMembers(f, keys, i) ==
  IF i > Len(keys) THEN <<>>
  ELSE (IF i > 1 THEN <<44>> ELSE <<>>) \o goString(keys[i]) \o <<58>>
       \o jsonMarshal(f[keys[i]]) \o jsonMarshalMembers(f, keys, i + 1)

----------------------------------------------------------------------------
(* Marshal.                                                                 *)

encoded(d) == IF d.ok THEN writeJCS(d.v) ELSE [ok |-> FALSE, b |-> <<>>]

\* Marshal of JSON text (a json.RawMessage or a []byte).
MarshalJSON(b) == encoded(Decode(b))

\* Marshal of a Go value that is not JSON text.
MarshalValue(v) == MarshalJSON(jsonMarshal(v))

\* Marshal of a Go value given by a tree of this module.
Marshal(tree) == MarshalValue(Runified(tree))

----------------------------------------------------------------------------
(* The heap.                                                                *)

\* make(map[string]any): a new map with the given content, at a new address.
Alloc(h, content) == [h |-> Append(h, content), a |-> Len(h) + 1]

\* TLC evaluates the arguments of an operator when they are first read.
\* Now(h) reads the heap h, so that a long chain of allocations is computed
\* step by step and not all at once at its end.
Now(h) == Len(h) >= 0

\* Builds a JSON tree in the heap as a decoder would: every object becomes a
\* map of its own.  Returns the new heap and the Go value of the tree.
RECURSIVE Load(_, _)
RECURSIVE LoadMembers(_, _, _, _)
RECURSIVE LoadItems(_, _, _, _)
Load(h, tree) ==
  IF Now(h) /\ tree.t = "obj"
    THEN LET r == Alloc(h, EmptyMap)
         IN [h |-> LoadMembers(r.h, r.a, tree.m, SortStrings(DOMAIN tree.m)), v |-> Ref(r.a)]
  ELSE IF tree.t = "arr"
    THEN LoadItems(h, tree.e, 1, <<>>)
  ELSE [h |-> h, v |-> tree]

LoadMembers(h, a, f, keys) ==
  IF Now(h) /\ keys = <<>> THEN h
  ELSE LET r == Load(h, f[Head(keys)])
       IN LoadMembers([r.h EXCEPT ![a] = Put(@, Head(keys), r.v)], a, f, Tail(keys))

LoadItems(h, q, i, acc) ==
  IF Now(h) /\ i > Len(q) THEN [h |-> h, v |-> Arr(acc)]
  ELSE LET r == Load(h, q[i])
       IN LoadItems(r.h, q, i + 1, Append(acc, r.v))

\* The JSON tree a Go value denotes (maps followed through the heap), cut at
\* depth d: a map below that depth reads as the string "...".
RECURSIVE Deref(_, _, _)
Deref(h, v, d) ==
  IF v.t = "ref"
    THEN IF d = 0 THEN Str("...")
         ELSE Obj([k \in DOMAIN h[v.n] |-> Deref(h, h[v.n][k], d - 1)])
  ELSE IF v.t = "arr"
    THEN Arr([i \in 1..Len(v.e) |-> Deref(h, v.e[i], d)])
  ELSE v

----------------------------------------------------------------------------
(* Errors.  One record shape for the three structured errors of the         *)
(* package and for the plain errors built with fmt.Errorf / errors.New.     *)

NoErr == [kind |-> "", path |-> "", keyword |-> "", ref |-> "", msg |-> ""]
OutsideProfileError(path, keyword) ==
  [kind |-> "OutsideProfileError", path |-> path, keyword |-> keyword, ref |-> "", msg |-> ""]
RefError(path, ref, msg) ==
  [kind |-> "RefError", path |-> path, keyword |-> "", ref |-> ref, msg |-> msg]
SchemaError(path, msg) ==
  [kind |-> "SchemaError", path |-> path, keyword |-> "", ref |-> "", msg |-> msg]
PlainError(path, msg) ==
  [kind |-> "error", path |-> path, keyword |-> "", ref |-> "", msg |-> msg]

----------------------------------------------------------------------------
(* Profile gate and utilities.                                              *)

inScopeKeywords ==
  {"$ref", "$defs", "allOf", "type", "enum", "const", "properties", "required",
   "additionalProperties", "items", "oneOf", "anyOf", "minimum", "maximum",
   "exclusiveMinimum", "exclusiveMaximum", "minLength", "maxLength", "minItems", "maxItems"}

annotationKeywords ==
  {"title", "description", "examples", "default", "deprecated", "readOnly", "writeOnly",
   "$schema"}

pathOrRoot(path) == IF path = "" THEN "<root>" ELSE path

\* ptrJoin.  Every caller passes a non-empty next that starts with a letter
\* (properties[..], additionalProperties, items, oneOf[..], anyOf[..],
\* allOf[..]), so the branches for an empty next and for a next starting
\* with "[" or "." are never taken.
ptrJoin(prefix, next) == IF prefix = "" THEN next ELSE prefix \o "." \o next

\* fmt.Sprintf("%q", k) for the keys of the model (no character needs escaping).
Quote(k) == "\"" \o k \o "\""

\* assertProfileKeywords: the errors it can return for a map with content f.
\* The range loop returns at the first key outside both sets that it visits,
\* and visits the keys in an unspecified order: any such key can be reported.
\* The empty set stands for the nil error.
assertProfileKeywords(f, path) ==
  { OutsideProfileError(pathOrRoot(path), k) :
      k \in (DOMAIN f) \ (inScopeKeywords \cup annotationKeywords) }

IsNonEmptyString(v) == v.t = "str" /\ ~TrimSpaceIsEmpty(v.s)

StringsOf(q) == { q[i].s : i \in { j \in 1..Len(q) : q[j].t = "str" } }

StrArr(q) == Arr([i \in 1..Len(q) |-> Str(q[i])])

\* normalizeType: [ok, v, msg].
normalizeType(v) ==
  IF v.t = "str"
    THEN IF TrimSpaceIsEmpty(v.s)
           THEN [ok |-> FALSE, v |-> Null, msg |-> "must not be empty"]
           ELSE [ok |-> TRUE, v |-> Arr(<<v>>), msg |-> ""]
  ELSE IF v.t = "arr"
    THEN IF \E i \in 1..Len(v.e) : ~IsNonEmptyString(v.e[i])
           THEN [ok |-> FALSE, v |-> Null, msg |-> "must be array of non-empty strings"]
           ELSE [ok |-> TRUE, v |-> StrArr(SortStrings(StringsOf(v.e))), msg |-> ""]
  ELSE [ok |-> FALSE, v |-> Null, msg |-> "must be string or array of strings"]

\* normalizeStringSet: [ok, v, msg].
normalizeStringSet(v) ==
  IF v.t # "arr"
    THEN [ok |-> FALSE, v |-> Null, msg |-> "must be array"]
  ELSE IF \E i \in 1..Len(v.e) : ~IsNonEmptyString(v.e[i])
    THEN [ok |-> FALSE, v |-> Null, msg |-> "must contain only non-empty strings"]
  ELSE [ok |-> TRUE, v |-> StrArr(SortStrings(StringsOf(v.e))), msg |-> ""]

\* cloneMap: a new map with the same entries (the values are shared).
cloneMap(h, a) == Alloc(h, h[a])

\* toFloat64: the number a bound holds; 0 for anything that is not a number.
toFloat64(v) == IF v.t = "num" THEN v.n ELSE 0

----------------------------------------------------------------------------
(* References.  net/url is a library: what url.Parse, URL.String and        *)
(* URL.ResolveReference return for the reference strings of the model is    *)
(* listed, not computed.                                                    *)

\* url.Parse(ref): ok = FALSE when it returns an error.
urlParse(ref) ==
  CASE ref = "#" -> [ok |-> TRUE, scheme |-> "", path |-> "", frag |-> ""]
    [] ref = "#/a" -> [ok |-> TRUE, scheme |-> "", path |-> "", frag |-> "/a"]
    [] ref = "#/b" -> [ok |-> TRUE, scheme |-> "", path |-> "", frag |-> "/b"]
    [] ref = "#/c" -> [ok |-> TRUE, scheme |-> "", path |-> "", frag |-> "/c"]
    [] ref = "#/nope" -> [ok |-> TRUE, scheme |-> "", path |-> "", frag |-> "/nope"]
    [] ref = "#frag" -> [ok |-> TRUE, scheme |-> "", path |-> "", frag |-> "frag"]
    [] ref = "#/a/items" -> [ok |-> TRUE, scheme |-> "", path |-> "", frag |-> "/a/items"]
    [] ref = "#/a/oneOf/0" -> [ok |-> TRUE, scheme |-> "", path |-> "", frag |-> "/a/oneOf/0"]
    [] ref = "#/a/properties/p" ->
         [ok |-> TRUE, scheme |-> "", path |-> "", frag |-> "/a/properties/p"]
    [] ref = "#/c/properties/p" ->
         [ok |-> TRUE, scheme |-> "", path |-> "", frag |-> "/c/properties/p"]
    [] ref = "#/b/properties/p/properties/y" ->
         [ok |-> TRUE, scheme |-> "", path |-> "", frag |-> "/b/properties/p/properties/y"]
    [] ref = "other.json#/x" ->
         [ok |-> TRUE, scheme |-> "", path |-> "other.json", frag |-> "/x"]
    [] ref = "https://example.com/s.json#/Foo" ->
         [ok |-> TRUE, scheme |-> "https", path |-> "/s.json", frag |-> "/Foo"]
    [] ref = "https://example.com/bad.json#/Foo" ->
         [ok |-> TRUE, scheme |-> "https", path |-> "/bad.json", frag |-> "/Foo"]
    [] ref = "https://example.com/loop.json#/a" ->
         [ok |-> TRUE, scheme |-> "https", path |-> "/loop.json", frag |-> "/a"]
    [] ref = "https://example.com/garbled.json#/a" ->
         [ok |-> TRUE, scheme |-> "https", path |-> "/garbled.json", frag |-> "/a"]
    [] ref = "%zz" -> [ok |-> FALSE, scheme |-> "", path |-> "", frag |-> ""]

\* strings.HasPrefix(ref, "#")
HasHashPrefix(ref) == Len(Runes(ref)) > 0 /\ Runes(ref)[1] = 35

\* The only base URL of the model.
ExampleBase == "https://example.com/base/"

\* u.String() of the URL resolveRef holds after resolving against the base:
\* the key of the cycle set.  A relative reference is only resolved with a
\* base set; an empty fragment is not printed.
urlString(ref, base) ==
  IF ref = "#" THEN ""
  ELSE IF ref = "other.json#/x" /\ base = ExampleBase
    THEN "https://example.com/base/other.json#/x"
  ELSE ref

\* The tokens of a JSON Pointer fragment: strings.Split(fragment, "/")[1:],
\* unescaped; slash = strings.HasPrefix(fragment, "/").
pointerTokens(frag) ==
  CASE frag = "/a" -> [slash |-> TRUE, toks |-> <<"a">>]
    [] frag = "/b" -> [slash |-> TRUE, toks |-> <<"b">>]
    [] frag = "/c" -> [slash |-> TRUE, toks |-> <<"c">>]
    [] frag = "/x" -> [slash |-> TRUE, toks |-> <<"x">>]
    [] frag = "/Foo" -> [slash |-> TRUE, toks |-> <<"Foo">>]
    [] frag = "/nope" -> [slash |-> TRUE, toks |-> <<"nope">>]
    [] frag = "/a/items" -> [slash |-> TRUE, toks |-> <<"a", "items">>]
    [] frag = "/a/oneOf/0" -> [slash |-> TRUE, toks |-> <<"a", "oneOf", "0">>]
    [] frag = "/a/properties/p" -> [slash |-> TRUE, toks |-> <<"a", "properties", "p">>]
    [] frag = "/c/properties/p" -> [slash |-> TRUE, toks |-> <<"c", "properties", "p">>]
    [] frag = "/b/properties/p/properties/y" ->
         [slash |-> TRUE, toks |-> <<"b", "properties", "p", "properties", "y">>]
    [] frag = "frag" -> [slash |-> FALSE, toks |-> <<>>]

\* strconv.Atoi on a pointer token: -1 stands for an error.
Atoi(tok) == CASE tok = "0" -> 0 [] tok = "1" -> 1 [] OTHER -> -1

\* resolveJSONPointer: [ok, v, msg].
RECURSIVE walkPointer(_, _, _)
walkPointer(h, cur, toks) ==
  IF toks = <<>> THEN [ok |-> TRUE, v |-> cur, msg |-> ""]
  ELSE LET tok == Head(toks) IN
    IF cur.t = "ref"
      THEN IF tok \in DOMAIN h[cur.n]
             THEN walkPointer(h, h[cur.n][tok], Tail(toks))
             ELSE [ok |-> FALSE, v |-> Null, msg |-> "pointer not found: " \o Quote(tok)]
    ELSE IF cur.t = "arr"
      THEN IF tok = "-"
             THEN [ok |-> FALSE, v |-> Null, msg |-> "pointer '-' is not valid for array lookup"]
           ELSE IF Atoi(tok) < 0 \/ Atoi(tok) >= Len(cur.e)
             THEN [ok |-> FALSE, v |-> Null, msg |-> "array index out of range: " \o Quote(tok)]
           ELSE walkPointer(h, cur.e[Atoi(tok) + 1], Tail(toks))
    ELSE [ok |-> FALSE, v |-> Null, msg |-> "pointer traversed non-container"]

resolveJSONPointer(h, doc, frag) ==
  IF frag = "" THEN [ok |-> TRUE, v |-> doc, msg |-> ""]
  ELSE IF ~pointerTokens(frag).slash
    THEN [ok |-> FALSE, v |-> Null, msg |-> "unsupported fragment (must be JSON Pointer)"]
  ELSE walkPointer(h, doc, pointerTokens(frag).toks)

\* The fetcher of the model: what Fetch returns for a URL (ok = FALSE: Fetch
\* returned an error) and what decodeJSON makes of the bytes (json = FALSE:
\* they are not one JSON document; otherwise doc is the document).
FetchResponse(key) ==
  CASE key = "https://example.com/s.json#/Foo" ->
         [ok |-> TRUE, json |-> TRUE, doc |-> O1("Foo", O1("type", Str("string")))]
    [] key = "https://example.com/base/other.json#/x" ->
         [ok |-> TRUE, json |-> TRUE, doc |-> O1("x", O1("type", Str("number")))]
    [] key = "https://example.com/loop.json#/a" ->
         [ok |-> TRUE, json |-> TRUE, doc |-> O1("a", O1("$ref", Str("https://example.com/loop.json#/a")))]
    [] key = "https://example.com/garbled.json#/a" ->
         [ok |-> TRUE, json |-> FALSE, doc |-> Null]
    [] OTHER -> [ok |-> FALSE, json |-> FALSE, doc |-> Null]

\* One entry of the trace.
Event(ev, key, active, res) == [ev |-> ev, key |-> key, active |-> active, res |-> res]

\* The state a call works on: the heap, the Normalizer's refStack, the trace,
\* and the Normalizer's configuration (which no operation changes).
Logged(st, e) == [st EXCEPT !.tr = Append(@, e)]

\* A cleanup that deletes nothing.
cleanupKeepsKey(st, key) == Logged(st, Event("pop", key, key \in st.rs, ""))

\* cleanup: delete(n.refStack, key).
cleanup(st, key) ==
  Logged([st EXCEPT !.rs = @ \ {key}], Event("pop", key, key \in st.rs, ""))

\* resolveRef without the test of n.refStack[key]: a reference is resolved
\* again while its target is still being normalized.
resolveRefNoCycleTest(st, ref, path) ==
  LET u == urlParse(ref)
      relative == u.scheme = "" /\ u.path # ""
      key == urlString(ref, st.base)
      active == key \in st.rs
      fail(res, msg, s2) ==
        [st |-> Logged(s2, Event("resolve", key, active, res)), ok |-> FALSE, v |-> Null,
         key |-> key, err |-> RefError(pathOrRoot(path), ref, msg)]
      pushed == [st EXCEPT !.rs = @ \cup {key}]
      fragmentOnly == u.scheme = "" /\ u.path = "" /\ (u.frag # "" \/ HasHashPrefix(ref))
  IN
  IF ~u.ok THEN fail("parse", "invalid URL", st)
  ELSE IF relative /\ st.base = "" THEN fail("nobase", "relative $ref with no base", st)
  ELSE IF fragmentOnly
    THEN LET r == resolveJSONPointer(st.h, st.root, u.frag) IN
         IF ~r.ok THEN fail("pointer", r.msg, st)
         ELSE [st |-> Logged(pushed, Event("resolve", key, active, "ok")), ok |-> TRUE,
               v |-> r.v, key |-> key, err |-> NoErr]
  ELSE IF ~st.fetch THEN fail("nofetcher", "external $ref unsupported (no fetcher)", st)
  ELSE LET f == FetchResponse(key)
           fetched == Logged(st, Event("fetch", key, active, IF f.ok THEN "ok" ELSE "error"))
       IN
       IF ~f.ok THEN fail("fetcherr", "fetch failed", fetched)
       ELSE IF ~f.json THEN fail("decode", "invalid JSON", fetched)
       ELSE LET ld == Load(fetched.h, f.doc)
                s2 == [fetched EXCEPT !.h = ld.h]
                r == resolveJSONPointer(s2.h, ld.v, u.frag)
            IN IF ~r.ok THEN fail("pointer", r.msg, s2)
               ELSE [st |-> Logged([s2 EXCEPT !.rs = @ \cup {key}],
                                   Event("resolve", key, active, "ok")),
                     ok |-> TRUE, v |-> r.v, key |-> key, err |-> NoErr]

\* resolveRef: [st, ok, v, key, err].  When ok, key is in st.rs and the
\* caller owes the cleanup; otherwise the returned cleanup is the no-op.
\* resolveRef that leaves the key in n.refStack when the pointer of a
\* fragment-only reference does not resolve.
resolveRefKeepsKey(st, ref, path) ==
  LET u == urlParse(ref)
      relative == u.scheme = "" /\ u.path # ""
      key == urlString(ref, st.base)
      active == key \in st.rs
      fail(res, msg, s2) ==
        [st |-> Logged(s2, Event("resolve", key, active, res)), ok |-> FALSE, v |-> Null,
         key |-> key, err |-> RefError(pathOrRoot(path), ref, msg)]
      pushed == [st EXCEPT !.rs = @ \cup {key}]
      fragmentOnly == u.scheme = "" /\ u.path = "" /\ (u.frag # "" \/ HasHashPrefix(ref))
  IN
  IF ~u.ok THEN fail("parse", "invalid URL", st)
  ELSE IF relative /\ st.base = "" THEN fail("nobase", "relative $ref with no base", st)
  ELSE IF active THEN fail("cycle", "cycle detected", st)
  ELSE IF fragmentOnly
    THEN LET r == resolveJSONPointer(st.h, st.root, u.frag) IN
         IF ~r.ok THEN fail("pointer", r.msg, pushed)
         ELSE [st |-> Logged(pushed, Event("resolve", key, active, "ok")), ok |-> TRUE,
               v |-> r.v, key |-> key, err |-> NoErr]
  ELSE IF ~st.fetch THEN fail("nofetcher", "external $ref unsupported (no fetcher)", st)
  ELSE LET f == FetchResponse(key)
           fetched == Logged(st, Event("fetch", key, active, IF f.ok THEN "ok" ELSE "error"))
       IN
       IF ~f.ok THEN fail("fetcherr", "fetch failed", fetched)
       ELSE IF ~f.json THEN fail("decode", "invalid JSON", fetched)
       ELSE LET ld == Load(fetched.h, f.doc)
                s2 == [fetched EXCEPT !.h = ld.h]
                r == resolveJSONPointer(s2.h, ld.v, u.frag)
            IN IF ~r.ok THEN fail("pointer", r.msg, s2)
               ELSE [st |-> Logged([s2 EXCEPT !.rs = @ \cup {key}],
                                   Event("resolve", key, active, "ok")),
                     ok |-> TRUE, v |-> r.v, key |-> key, err |-> NoErr]

resolveRef(st, ref, path) ==
  LET u == urlParse(ref)
      relative == u.scheme = "" /\ u.path # ""
      key == urlString(ref, st.base)
      active == key \in st.rs
      fail(res, msg, s2) ==
        [st |-> Logged(s2, Event("resolve", key, active, res)), ok |-> FALSE, v |-> Null,
         key |-> key, err |-> RefError(pathOrRoot(path), ref, msg)]
      pushed == [st EXCEPT !.rs = @ \cup {key}]
      fragmentOnly == u.scheme = "" /\ u.path = "" /\ (u.frag # "" \/ HasHashPrefix(ref))
  IN
  IF ~u.ok THEN fail("parse", "invalid URL", st)
  ELSE IF relative /\ st.base = "" THEN fail("nobase", "relative $ref with no base", st)
  ELSE IF active THEN fail("cycle", "cycle detected", st)
  ELSE IF fragmentOnly
    THEN LET r == resolveJSONPointer(st.h, st.root, u.frag) IN
         IF ~r.ok THEN fail("pointer", r.msg, st)
         ELSE [st |-> Logged(pushed, Event("resolve", key, active, "ok")), ok |-> TRUE,
               v |-> r.v, key |-> key, err |-> NoErr]
  ELSE IF ~st.fetch THEN fail("nofetcher", "external $ref unsupported (no fetcher)", st)
  ELSE LET f == FetchResponse(key)
           fetched == Logged(st, Event("fetch", key, active, IF f.ok THEN "ok" ELSE "error"))
       IN
       IF ~f.ok THEN fail("fetcherr", "fetch failed", fetched)
       ELSE IF ~f.json THEN fail("decode", "invalid JSON", fetched)
       ELSE LET ld == Load(fetched.h, f.doc)
                s2 == [fetched EXCEPT !.h = ld.h]
                r == resolveJSONPointer(s2.h, ld.v, u.frag)
            IN IF ~r.ok THEN fail("pointer", r.msg, s2)
               ELSE [st |-> Logged([s2 EXCEPT !.rs = @ \cup {key}],
                                   Event("resolve", key, active, "ok")),
                     ok |-> TRUE, v |-> r.v, key |-> key, err |-> NoErr]

----------------------------------------------------------------------------
(* allOf flattening.                                                        *)

\* The deepest nesting of calls a run may reach.  The recursion of the
\* package is bounded only by the Go stack; a run that nests deeper than
\* MaxDepth in the model is reported as "overflow" (the goroutine's stack
\* overflows, which ends the process).
MaxDepth == 7

\* CanonicalString of a Go value: [ok, b].
CanonicalString(h, v) == Marshal(Deref(h, v, MaxDepth))

\* "<unserializable>"
Unserializable == <<60, 117, 110, 115, 101, 114, 105, 97, 108, 105, 122, 97, 98, 108, 101, 62>>

keyOrUnserializable(r) == IF r.ok THEN r.b ELSE Unserializable

canonicalKey(h, v) == keyOrUnserializable(CanonicalString(h, v))

\* intersectTypeSlices as a plain set intersection.
intersectTypeSlicesPlain(a, b) == StrArr(SortStrings(StringsOf(a) \cap StringsOf(b)))

intersectTypeSlices(a, b) ==
  LET aSet == StringsOf(a)
      bSet == StringsOf(b)
      plain == (aSet \cap bSet) \ {"number", "integer"}
      aNum == "number" \in aSet
      bNum == "number" \in bSet
      aInt == "integer" \in aSet
      bInt == "integer" \in bSet
      numeric == IF (aNum \/ aInt) /\ (bNum \/ bInt)
                   THEN IF aNum /\ bNum THEN {"number"} ELSE {"integer"}
                   ELSE {}
  IN StrArr(SortStrings(plain \cup numeric))

unionStringSlices(a, b) == StrArr(SortStrings(StringsOf(a) \cup StringsOf(b)))

\* intersectValues: the elements of a whose canonical key is the key of some
\* element of b, in a's order.
RECURSIVE keepValues(_, _, _)
keepValues(h, a, bSet) ==
  IF a = <<>> THEN <<>>
  ELSE (IF canonicalKey(h, Head(a)) \in bSet THEN <<Head(a)>> ELSE <<>>)
       \o keepValues(h, Tail(a), bSet)

intersectValues(h, a, b) ==
  keepValues(h, a, { canonicalKey(h, b[i]) : i \in 1..Len(b) })

\* A step of mergeAllOfBranch works on [h, k, err]: the heap, "ok" while the
\* merge goes on, "err" once it returned err, "overflow" once the stack is gone.
MergeOk(h) == [h |-> h, k |-> "ok", err |-> NoErr]
MergeErr(h, err) == [h |-> h, k |-> "err", err |-> err]
MergeOverflow(h) == [h |-> h, k |-> "overflow", err |-> NoErr]

\* acc[key] = v
SetKey(h, acc, key, v) == [h EXCEPT ![acc] = Put(@, key, v)]

\* type: intersection.
mergeType(ms, acc, branch, path) ==
  LET b == ms.h[branch]
      a == ms.h[acc]
  IN
  IF ms.k # "ok" \/ ~HasKey(b, "type") THEN ms
  ELSE LET bTypes == normalizeType(b["type"]) IN
    IF ~bTypes.ok THEN MergeErr(ms.h, PlainError(path \o ".type", bTypes.msg))
    ELSE IF HasKey(a, "type")
      THEN LET aTypes == normalizeType(a["type"]) IN
           IF ~aTypes.ok THEN MergeErr(ms.h, PlainError(path \o ".type", aTypes.msg))
           ELSE LET inter == intersectTypeSlices(aTypes.v.e, bTypes.v.e) IN
                IF Len(inter.e) = 0
                  THEN MergeErr(ms.h, SchemaError(path, "allOf type intersection is empty"))
                  ELSE MergeOk(SetKey(ms.h, acc, "type", inter))
      ELSE MergeOk(SetKey(ms.h, acc, "type", bTypes.v))

\* required: union.
mergeRequired(ms, acc, branch, path) ==
  LET b == ms.h[branch]
      a == ms.h[acc]
  IN
  IF ms.k # "ok" \/ ~HasKey(b, "required") THEN ms
  ELSE LET bReq == normalizeStringSet(b["required"]) IN
    IF ~bReq.ok THEN MergeErr(ms.h, PlainError(path \o ".required", bReq.msg))
    ELSE IF HasKey(a, "required")
      THEN LET aReq == normalizeStringSet(a["required"]) IN
           IF ~aReq.ok THEN MergeErr(ms.h, PlainError(path \o ".required", aReq.msg))
           ELSE MergeOk(SetKey(ms.h, acc, "required", unionStringSlices(aReq.v.e, bReq.v.e)))
      ELSE MergeOk(SetKey(ms.h, acc, "required", bReq.v))

\* acc["enum"] = inter, unless the intersection is empty.
storeEnum(ms, acc, path, inter) ==
  IF Len(inter) = 0
    THEN MergeErr(ms.h, SchemaError(path, "allOf enum intersection is empty"))
    ELSE MergeOk(SetKey(ms.h, acc, "enum", Arr(inter)))

\* enum: intersection.
mergeEnum(ms, acc, branch, path) ==
  LET b == ms.h[branch]
      a == ms.h[acc]
  IN
  IF ms.k # "ok" \/ ~HasKey(b, "enum") THEN ms
  ELSE IF b["enum"].t # "arr"
    THEN MergeErr(ms.h, PlainError(path \o ".enum", "must be array"))
  ELSE IF HasKey(a, "enum")
    THEN storeEnum(ms, acc, path,
                   intersectValues(ms.h, IF a["enum"].t = "arr" THEN a["enum"].e ELSE <<>>,
                                   b["enum"].e))
  ELSE MergeOk(SetKey(ms.h, acc, "enum", b["enum"]))

\* const: conflict is an error.
mergeConst(ms, acc, branch, path) ==
  LET b == ms.h[branch]
      a == ms.h[acc]
  IN
  IF ms.k # "ok" \/ ~HasKey(b, "const") THEN ms
  ELSE IF HasKey(a, "const")
    THEN IF canonicalKey(ms.h, a["const"]) # canonicalKey(ms.h, b["const"])
           THEN MergeErr(ms.h, SchemaError(path, "allOf const conflict"))
           ELSE ms
  ELSE MergeOk(SetKey(ms.h, acc, "const", b["const"]))

\* One bound keyword: the branch's value replaces the accumulator's when it
\* is more restrictive (lower = TRUE: higher wins; lower = FALSE: lower wins).
mergeBound(ms, acc, branch, key, lower) ==
  LET b == ms.h[branch]
      a == ms.h[acc]
  IN
  IF ms.k # "ok" \/ ~HasKey(b, key) THEN ms
  ELSE IF HasKey(a, key)
    THEN IF (lower /\ toFloat64(b[key]) > toFloat64(a[key]))
            \/ (~lower /\ toFloat64(b[key]) < toFloat64(a[key]))
           THEN MergeOk(SetKey(ms.h, acc, key, b[key]))
           ELSE ms
  ELSE MergeOk(SetKey(ms.h, acc, key, b[key]))

mergeBounds(ms, acc, branch) ==
  LET l1 == mergeBound(ms, acc, branch, "minimum", TRUE)
      l2 == mergeBound(l1, acc, branch, "exclusiveMinimum", TRUE)
      l3 == mergeBound(l2, acc, branch, "minLength", TRUE)
      l4 == mergeBound(l3, acc, branch, "minItems", TRUE)
      u1 == mergeBound(l4, acc, branch, "maximum", FALSE)
      u2 == mergeBound(u1, acc, branch, "exclusiveMaximum", FALSE)
      u3 == mergeBound(u2, acc, branch, "maxLength", FALSE)
  IN mergeBound(u3, acc, branch, "maxItems", FALSE)

\* asMap(v) for a value that may be no map: the map, or a new empty one
\* (the code replaces a nil map by map[string]any{}).  [h, a].
MapOrEmpty(h, v) == IF v.t = "ref" THEN [h |-> h, a |-> v.n] ELSE Alloc(h, EmptyMap)

RECURSIVE mergeAllOfBranch(_, _, _, _, _)
RECURSIVE mergePropertiesLoop(_, _, _, _, _, _, _)

\* The body of the properties loop for key k: recursive merge when the
\* accumulator has the key, otherwise the branch's value is stored as it is.
mergeProperty(ms, aProps, bProps, k, path, d) ==
  LET h == ms.h
      bv == h[bProps][k]
  IN
  IF HasKey(h[aProps], k)
    THEN LET avm == MapOrEmpty(h, h[aProps][k])
             bvm == MapOrEmpty(avm.h, bv)
             merged == cloneMap(bvm.h, avm.a)
         IN { IF r.k # "ok" THEN r ELSE MergeOk(SetKey(r.h, aProps, k, Ref(merged.a))) :
                r \in mergeAllOfBranch(merged.h, merged.a, bvm.a,
                                       path \o ".properties[\"" \o k \o "\"]", d - 1) }
    ELSE {MergeOk(SetKey(h, aProps, k, bv))}

\* for k, bv := range bProps.  The keys are visited in any order; a key the
\* loop body itself adds to bProps may be visited or skipped.
mergePropertiesLoop(ms, aProps, bProps, orig, visited, path, d) ==
  IF ms.k # "ok" THEN {ms}
  ELSE LET pend == (DOMAIN ms.h[bProps]) \ visited IN
       (IF pend \cap orig = {} THEN {ms} ELSE {})
       \cup UNION { UNION { mergePropertiesLoop(x, aProps, bProps, orig, visited \cup {k}, path, d) :
                              x \in mergeProperty(ms, aProps, bProps, k, path, d) } :
                    k \in pend }

\* properties: union of keys, recursive merge for overlapping keys.
mergeProperties(ms, acc, branch, path, d) ==
  LET b == ms.h[branch]
      a == ms.h[acc]
  IN
  IF ms.k # "ok" \/ ~HasKey(b, "properties") THEN {ms}
  ELSE IF b["properties"].t # "ref"
    THEN {MergeErr(ms.h, PlainError(path \o ".properties", "must be object"))}
  ELSE LET bProps == b["properties"].n
           aProps == IF HasKey(a, "properties") /\ a["properties"].t = "ref"
                       THEN [h |-> ms.h, a |-> a["properties"].n]
                       ELSE Alloc(ms.h, EmptyMap)
       IN { IF r.k # "ok" THEN r ELSE MergeOk(SetKey(r.h, acc, "properties", Ref(aProps.a))) :
              r \in mergePropertiesLoop(MergeOk(aProps.h), aProps.a, bProps,
                                        DOMAIN ms.h[bProps], {}, path, d) }

\* additionalProperties: false wins; schemas merge recursively.
mergeAdditionalProperties(ms, acc, branch, path, d) ==
  LET b == ms.h[branch]
      a == ms.h[acc]
      key == "additionalProperties"
  IN
  IF ms.k # "ok" \/ ~HasKey(b, key) THEN {ms}
  ELSE IF b[key].t = "bool"
    THEN IF b[key].n = 0 THEN {MergeOk(SetKey(ms.h, acc, key, Bool(FALSE)))}
         ELSE IF ~HasKey(a, key) THEN {MergeOk(SetKey(ms.h, acc, key, Bool(TRUE)))}
         ELSE {ms}
  ELSE IF b[key].t = "ref"
    THEN IF HasKey(a, key)
           THEN IF a[key].t = "bool"
                  THEN IF a[key].n = 0 THEN {ms} ELSE {MergeOk(SetKey(ms.h, acc, key, b[key]))}
                ELSE IF a[key].t = "ref"
                  THEN LET merged == cloneMap(ms.h, a[key].n)
                       IN { IF r.k # "ok" THEN r
                            ELSE MergeOk(SetKey(r.h, acc, key, Ref(merged.a))) :
                              r \in mergeAllOfBranch(merged.h, merged.a, b[key].n,
                                                     path \o ".additionalProperties", d - 1) }
                ELSE {ms}
           ELSE {MergeOk(SetKey(ms.h, acc, key, b[key]))}
  ELSE {ms}

\* items: recursive merge.
mergeItems(ms, acc, branch, path, d) ==
  LET b == ms.h[branch]
      a == ms.h[acc]
  IN
  IF ms.k # "ok" \/ ~HasKey(b, "items") THEN {ms}
  ELSE IF b["items"].t # "ref"
    THEN {MergeErr(ms.h, PlainError(path \o ".items", "must be object"))}
  ELSE IF HasKey(a, "items")
    THEN LET aItems == MapOrEmpty(ms.h, a["items"])
             merged == cloneMap(aItems.h, aItems.a)
         IN { IF r.k # "ok" THEN r ELSE MergeOk(SetKey(r.h, acc, "items", Ref(merged.a))) :
                r \in mergeAllOfBranch(merged.h, merged.a, b["items"].n, path \o ".items", d - 1) }
  ELSE {MergeOk(SetKey(ms.h, acc, "items", b["items"]))}

\* mergeAllOfBranch(acc, branch, path): the set of [h, k, err] it can end in.
\* acc and branch are addresses of maps; d is the stack left.
mergeAllOfBranch(h, acc, branch, path, d) ==
  IF d = 0 THEN {MergeOverflow(h)}
  ELSE
    { mergeBounds(s7, acc, branch) :
      s7 \in UNION { mergeItems(s6, acc, branch, path, d) :
      s6 \in { mergeConst(mergeEnum(s4, acc, branch, path), acc, branch, path) :
      s4 \in UNION { mergeAdditionalProperties(s3, acc, branch, path, d) :
      s3 \in { mergeRequired(s2, acc, branch, path) :
      s2 \in mergeProperties(mergeType(MergeOk(h), acc, branch, path),
                             acc, branch, path, d) } } } } }

\* What a method of the Normalizer ends in: [st, k, v, err].  k is "ok" with
\* the returned value v, "err" with the returned error, or "overflow".
Ok(st, v) == [st |-> st, k |-> "ok", v |-> v, err |-> NoErr]
Err(st, err) == [st |-> st, k |-> "err", v |-> Null, err |-> err]
Overflow(st) == [st |-> st, k |-> "overflow", v |-> Null, err |-> NoErr]

\* mergeAllOfBranch(merged, branch, branchPath) as a step of flattenAllOf.
mergeBranch(st, merged, branch, branchPath, d) ==
  { [st |-> [st EXCEPT !.h = m.h], k |-> m.k, v |-> Null, err |-> m.err] :
      m \in mergeAllOfBranch(st.h, merged, branch, branchPath, d - 1) }

\* A branch that is a $ref, given what resolveRef returned for it (r): the
\* cleanup runs at once, and the target takes the place of the branch.
resolvedBranch(r, ref, branchPath) ==
  IF ~r.ok THEN Err(r.st, r.err)
  ELSE IF r.v.t # "ref"
    THEN Err(cleanup(r.st, r.key),
             RefError(branchPath, ref, "resolved $ref is not an object"))
  ELSE Ok(cleanup(r.st, r.key), r.v)

\* The body of the loop of flattenAllOf for a branch with content f.
flattenMap(st, merged, branch, f, branchPath, d) ==
  IF assertProfileKeywords(f, branchPath) # {}
    THEN { Err(st, e) : e \in assertProfileKeywords(f, branchPath) }
  ELSE IF HasKey(f, "oneOf")
    THEN {Err(st, OutsideProfileError(branchPath, "oneOf inside allOf"))}
  ELSE IF HasKey(f, "anyOf")
    THEN {Err(st, OutsideProfileError(branchPath, "anyOf inside allOf"))}
  ELSE UNION { IF b.k # "ok" THEN {b} ELSE mergeBranch(b.st, merged, b.v.n, branchPath, d) :
               b \in { IF HasKey(f, "$ref") /\ IsNonEmptyString(f["$ref"])
                         THEN resolvedBranch(resolveRef(st, f["$ref"].s, branchPath),
                                             f["$ref"].s, branchPath)
                         ELSE Ok(st, Ref(branch)) } }

\* The body of the loop of flattenAllOf for arr[idx] = item.
flattenBranch(st, merged, item, idx, path, d) ==
  IF item.t # "ref"
    THEN {Err(st, PlainError(pathOrRoot(path) \o ".allOf[" \o ToString(idx) \o "]",
                             "must be object"))}
    ELSE flattenMap(st, merged, item.n, st.h[item.n],
                    ptrJoin(path, "allOf[" \o ToString(idx) \o "]"), d)

RECURSIVE flattenLoop(_, _, _, _, _, _)
flattenLoop(st, merged, arr, idx, path, d) ==
  IF idx >= Len(arr) THEN {Ok(st, Ref(merged))}
  ELSE UNION { IF o.k = "ok" THEN flattenLoop(o.st, merged, arr, idx + 1, path, d) ELSE {o} :
                 o \in flattenBranch(st, merged, arr[idx + 1], idx, path, d) }

\* flattenAllOf(allOf, path): merges all branches into one new map.
flattenAllOf(st, allOf, path, d) ==
  IF d = 0 THEN {Overflow(st)}
  ELSE IF allOf.t # "arr"
    THEN {Err(st, PlainError(pathOrRoot(path) \o ".allOf", "must be array"))}
  ELSE flattenLoop([st EXCEPT !.h = Append(@, EmptyMap)], Len(st.h) + 1, allOf.e, 0, path, d)

----------------------------------------------------------------------------
(* normalizeAt.                                                             *)

\* While normalizeAt builds out: [st, out, k, err].
Frame(st, out) == [st |-> st, out |-> out, k |-> "ok", err |-> NoErr]
FrameErr(fr, err) == [fr EXCEPT !.k = "err", !.err = err]
FrameOf(fr, o) == [fr EXCEPT !.st = o.st, !.k = o.k, !.err = o.err]

\* The copy of schema without the annotation keywords and $defs.
stripAnnotations(f) ==
  [k \in (DOMAIN f) \ (annotationKeywords \cup {"$defs"}) |-> f[k]]

normType(fr, path) ==
  IF fr.k # "ok" \/ ~HasKey(fr.out, "type") THEN fr
  ELSE LET r == normalizeType(fr.out["type"]) IN
       IF ~r.ok THEN FrameErr(fr, PlainError(pathOrRoot(path) \o ".type", r.msg))
       ELSE [fr EXCEPT !.out = Put(@, "type", r.v)]

normRequired(fr, path) ==
  IF fr.k # "ok" \/ ~HasKey(fr.out, "required") THEN fr
  ELSE LET r == normalizeStringSet(fr.out["required"]) IN
       IF ~r.ok THEN FrameErr(fr, PlainError(pathOrRoot(path) \o ".required", r.msg))
       ELSE [fr EXCEPT !.out = Put(@, "required", r.v)]

\* sort.Slice by canonical string.  Variants with the same canonical string
\* are the same JSON value, so their relative order does not show.
scored(h, vs) ==
  [i \in 1..Len(vs) |-> [canon |-> CanonicalString(h, vs[i]), v |-> vs[i]]]

RECURSIVE insertScored(_, _)
insertScored(x, rest) ==
  IF rest = <<>> THEN <<x>>
  ELSE IF LexLess(Head(rest).canon.b, x.canon.b)
    THEN <<Head(rest)>> \o insertScored(x, Tail(rest))
    ELSE <<x>> \o rest

RECURSIVE sortScored(_)
sortScored(sc) ==
  IF sc = <<>> THEN <<>> ELSE insertScored(Head(sc), sortScored(Tail(sc)))

\* The variants r.vs of the union, given their canonical strings sc, stored
\* in canonical order.
storeVariants(fr, r, key, path, sc) ==
  IF \E i \in 1..Len(sc) : ~sc[i].canon.ok
    THEN FrameErr([fr EXCEPT !.st = r.st],
                  PlainError(pathOrRoot(path) \o "." \o key, "canonicalize variant"))
    ELSE [fr EXCEPT !.st = r.st,
                    !.out = Put(@, key, Arr([i \in 1..Len(sc) |-> sortScored(sc)[i].v]))]

RECURSIVE normalizeAt(_, _, _, _)
RECURSIVE normPropertiesLoop(_, _, _, _, _, _, _)
RECURSIVE normUnionLoop(_, _, _, _, _, _, _)

\* for k, v := range propsMap, filling nm: the set of [st, k, nm, err].
normPropertiesLoop(st, nm, pm, orig, visited, path, d) ==
  LET pend == (DOMAIN st.h[pm]) \ visited
      visit(k) ==
        LET v == st.h[pm][k] IN
        IF v.t # "ref"
          THEN {[st |-> st, k |-> "err", nm |-> nm,
                 err |-> PlainError(pathOrRoot(path) \o ".properties[" \o Quote(k) \o "]",
                                    "must be object")]}
          ELSE UNION { IF o.k = "ok"
                         THEN normPropertiesLoop(o.st, Put(nm, k, o.v), pm, orig,
                                                 visited \cup {k}, path, d)
                         ELSE {[st |-> o.st, k |-> o.k, nm |-> nm, err |-> o.err]} :
                       o \in normalizeAt(st, v, ptrJoin(path, "properties[" \o Quote(k) \o "]"),
                                         d - 1) }
  IN (IF pend \cap orig = {} THEN {[st |-> st, k |-> "ok", nm |-> nm, err |-> NoErr]} ELSE {})
     \cup UNION { visit(k) : k \in pend }

normProperties(fr, path, d) ==
  IF fr.k # "ok" \/ ~HasKey(fr.out, "properties") THEN {fr}
  ELSE IF fr.out["properties"].t # "ref"
    THEN {FrameErr(fr, PlainError(pathOrRoot(path) \o ".properties", "must be object"))}
  ELSE LET pm == fr.out["properties"].n IN
       { IF r.k = "ok"
           THEN LET a == Alloc(r.st.h, r.nm)
                IN [fr EXCEPT !.st = [r.st EXCEPT !.h = a.h],
                              !.out = Put(@, "properties", Ref(a.a))]
           ELSE FrameOf(fr, r) :
         r \in normPropertiesLoop(fr.st, EmptyMap, pm, DOMAIN fr.st.h[pm], {}, path, d) }

\* The step for a keyword holding one sub-schema.
normNested(fr, key, path, d) ==
  { IF o.k = "ok" THEN [fr EXCEPT !.st = o.st, !.out = Put(@, key, o.v)] ELSE FrameOf(fr, o) :
    o \in normalizeAt(fr.st, fr.out[key], ptrJoin(path, key), d - 1) }

normAdditionalProperties(fr, path, d) ==
  LET key == "additionalProperties" IN
  IF fr.k # "ok" \/ ~HasKey(fr.out, key) THEN {fr}
  ELSE IF fr.out[key].t = "bool" THEN {fr}
  ELSE IF fr.out[key].t = "ref" THEN normNested(fr, key, path, d)
  ELSE {FrameErr(fr, PlainError(pathOrRoot(path) \o ".additionalProperties",
                                "must be boolean or object"))}

normItems(fr, path, d) ==
  IF fr.k # "ok" \/ ~HasKey(fr.out, "items") THEN {fr}
  ELSE IF fr.out["items"].t # "ref"
    THEN {FrameErr(fr, PlainError(pathOrRoot(path) \o ".items", "must be object"))}
  ELSE normNested(fr, "items", path, d)

\* for idx, item := range arr, appending to variants: the set of [st, k, vs, err].
normUnionLoop(st, vs, arr, idx, key, path, d) ==
  LET index == key \o "[" \o ToString(idx) \o "]" IN
  IF idx >= Len(arr) THEN {[st |-> st, k |-> "ok", vs |-> vs, err |-> NoErr]}
  ELSE IF arr[idx + 1].t # "ref"
    THEN {[st |-> st, k |-> "err", vs |-> vs,
           err |-> PlainError(pathOrRoot(path) \o "." \o index, "must be object")]}
  ELSE UNION { IF o.k = "ok"
                 THEN normUnionLoop(o.st, Append(vs, o.v), arr, idx + 1, key, path, d)
                 ELSE {[st |-> o.st, k |-> o.k, vs |-> vs, err |-> o.err]} :
               o \in normalizeAt(st, arr[idx + 1], ptrJoin(path, index), d - 1) }

\* oneOf / anyOf: normalize each variant, then order them by canonical JSON.
normUnion(fr, key, path, d) ==
  IF fr.k # "ok" \/ ~HasKey(fr.out, key) THEN {fr}
  ELSE IF fr.out[key].t # "arr"
    THEN {FrameErr(fr, PlainError(pathOrRoot(path) \o "." \o key, "must be array"))}
  ELSE { IF r.k # "ok" THEN FrameOf(fr, r)
         ELSE storeVariants(fr, r, key, path, scored(r.st.h, r.vs)) :
         r \in normUnionLoop(fr.st, <<>>, fr.out[key].e, 0, key, path, d) }

\* return out, nil
returnOut(fr) ==
  IF fr.k = "ok"
    THEN Ok([fr.st EXCEPT !.h = Append(@, fr.out)], Ref(Len(fr.st.h) + 1))
    ELSE [st |-> fr.st, k |-> fr.k, v |-> Null, err |-> fr.err]

\* The part of normalizeAt after the allOf step, on the stripped copy out.
normalizeBody(st, out, path, d) ==
  { returnOut(f7) :
    f7 \in UNION { normUnion(f6, "anyOf", path, d) :
    f6 \in UNION { normUnion(f5, "oneOf", path, d) :
    f5 \in UNION { normItems(f4, path, d) :
    f4 \in UNION { normAdditionalProperties(f3, path, d) :
    f3 \in normProperties(normRequired(normType(Frame(st, out), path), path),
                          path, d) } } } } }

\* A $ref step whose cleanup never runs after the target was normalized.
normalizeResolvedLeaks(r, ref, path, d) ==
  IF ~r.ok THEN {Err(r.st, r.err)}
  ELSE IF r.v.t # "ref"
    THEN {Err(cleanup(r.st, r.key), RefError(path, ref, "resolved $ref is not an object"))}
  ELSE normalizeAt(r.st, r.v, path, d - 1)

\* The $ref step, given what resolveRef returned (r): the reference stays in
\* the cycle set while its target is normalized; the deferred cleanup runs
\* when normalizeAt returns.
normalizeResolved(r, ref, path, d) ==
  IF ~r.ok THEN {Err(r.st, r.err)}
  ELSE IF r.v.t # "ref"
    THEN {Err(cleanup(r.st, r.key), RefError(path, ref, "resolved $ref is not an object"))}
  ELSE { [o EXCEPT !.st = cleanup(@, r.key)] : o \in normalizeAt(r.st, r.v, path, d - 1) }

\* normalizeAt for a map with content f.
normalizeMap(st, f, path, d) ==
  IF assertProfileKeywords(f, path) # {}
    THEN { Err(st, e) : e \in assertProfileKeywords(f, path) }
  ELSE IF HasKey(f, "$ref") /\ IsNonEmptyString(f["$ref"])
    THEN normalizeResolved(resolveRef(st, f["$ref"].s, path), f["$ref"].s, path, d)
  ELSE IF HasKey(stripAnnotations(f), "allOf")
    THEN UNION { IF m.k = "ok" THEN normalizeAt(m.st, m.v, path, d - 1) ELSE {m} :
                 m \in flattenAllOf(st, f["allOf"], path, d - 1) }
  ELSE normalizeBody(st, stripAnnotations(f), path, d)

\* normalizeAt(schema, path): every outcome the call can have.  schema is
\* Null for the nil map, otherwise the reference of a map.
normalizeAt(st, schema, path, d) ==
  IF d = 0 THEN {Overflow(st)}
  ELSE IF schema.t # "ref"
    THEN {Ok([st EXCEPT !.h = Append(@, EmptyMap)], Ref(Len(st.h) + 1))}
  ELSE normalizeMap(st, st.h[schema.n], path, d)

----------------------------------------------------------------------------
(* The compatibility decider.  It only reads the two normalized schemas,   *)
(* so it is computed on their trees: a schema is the function from its     *)
(* keys to their values.  No path of the decider returns a non-nil error,  *)
(* so each function is its Boolean result.                                 *)

\* asMap(v) / asSlice(v) on a value that may be missing: the nil map and the
\* nil slice behave as the empty ones in every use the decider makes of them.
asMap(f, key) == IF HasKey(f, key) /\ f[key].t = "obj" THEN f[key].m ELSE EmptyMap
IsMap(f, key) == HasKey(f, key) /\ f[key].t = "obj"
asSlice(f, key) == IF HasKey(f, key) /\ f[key].t = "arr" THEN f[key].e ELSE <<>>

hasKey(m, key) == HasKey(m, key)

\* typeSet: [nil, set]; nil stands for "all types".
typeSet(schema) ==
  IF ~HasKey(schema, "type") \/ schema["type"].t # "arr"
    THEN [nil |-> TRUE, set |-> {}]
    ELSE [nil |-> FALSE, set |-> StringsOf(schema["type"].e)]

\* subsetTypes in which "integer" also covers "number".
subsetTypesEitherWay(a, b) ==
  IF a.nil THEN b.nil
  ELSE IF b.nil THEN TRUE
  ELSE \A k \in a.set : \/ k \in b.set
                        \/ (k = "integer" /\ "number" \in b.set)
                        \/ (k = "number" /\ "integer" \in b.set)

subsetTypes(a, b) ==
  IF a.nil THEN b.nil
  ELSE IF b.nil THEN TRUE
  ELSE \A k \in a.set : k \in b.set \/ (k = "integer" /\ "number" \in b.set)

hasType(schema, t) == ~typeSet(schema).nil /\ t \in typeSet(schema).set

hasUnion(schema) == HasKey(schema, "oneOf") \/ HasKey(schema, "anyOf")

\* enumSet: [has, set] with the canonical keys of the values.
enumSet(schema) ==
  [has |-> HasKey(schema, "enum"),
   set |-> { canonicalKey(<<>>, asSlice(schema, "enum")[i]) :
               i \in 1..Len(asSlice(schema, "enum")) }]

equalJSONValue(a, b) == canonicalKey(<<>>, a) = canonicalKey(<<>>, b)

\* The const/enum rules, given both enum sets, the canonical keys of both
\* consts and whether the two consts are equal JSON values.
constEnumRules(tgt, cand, isInput, tgtEnum, candEnum, tgtConst, candConst, constsEqual) ==
  LET tgtHasConst == HasKey(tgt, "const")
      candHasConst == HasKey(cand, "const")
  IN
  IF isInput
    THEN IF tgtHasConst
           THEN IF candHasConst THEN constsEqual
                ELSE IF candEnum.has THEN tgtConst \in candEnum.set
                ELSE TRUE
         ELSE IF tgtEnum.has
           THEN IF candHasConst
                  THEN Cardinality(tgtEnum.set) = 1
                       /\ candConst \in tgtEnum.set
                ELSE IF candEnum.has THEN tgtEnum.set \subseteq candEnum.set
                ELSE TRUE
         ELSE TRUE
    ELSE IF tgtEnum.has
           THEN IF candHasConst THEN candConst \in tgtEnum.set
                ELSE IF candEnum.has THEN candEnum.set \subseteq tgtEnum.set
                ELSE FALSE
         ELSE IF tgtHasConst
           THEN IF candHasConst THEN constsEqual
                ELSE IF candEnum.has
                  THEN Cardinality(candEnum.set) = 1
                       /\ tgtConst \in candEnum.set
                ELSE FALSE
         ELSE TRUE

constKey(schema) ==
  IF HasKey(schema, "const") THEN canonicalKey(<<>>, schema["const"]) ELSE <<>>

compatConstEnum(tgt, cand, isInput) ==
  constEnumRules(tgt, cand, isInput, enumSet(tgt), enumSet(cand), constKey(tgt), constKey(cand),
                 HasKey(tgt, "const") /\ HasKey(cand, "const")
                 /\ equalJSONValue(tgt["const"], cand["const"]))

stringSet(f, key) == StringsOf(asSlice(f, key))

\* effectiveLowerBound / effectiveUpperBound: [v, excl].
\* effectiveLowerBound in which a tie between minimum and exclusiveMinimum
\* goes to the inclusive bound.
effectiveLowerBoundTieInclusive(schema) ==
  LET hasMin == HasKey(schema, "minimum")
      hasEMin == HasKey(schema, "exclusiveMinimum")
  IN
  IF hasMin /\ hasEMin
    THEN IF toFloat64(schema["exclusiveMinimum"]) > toFloat64(schema["minimum"])
           THEN [v |-> toFloat64(schema["exclusiveMinimum"]), excl |-> TRUE]
           ELSE [v |-> toFloat64(schema["minimum"]), excl |-> FALSE]
  ELSE IF hasEMin THEN [v |-> toFloat64(schema["exclusiveMinimum"]), excl |-> TRUE]
  ELSE IF hasMin THEN [v |-> toFloat64(schema["minimum"]), excl |-> FALSE]
  ELSE [v |-> 0, excl |-> FALSE]

effectiveLowerBound(schema) ==
  LET hasMin == HasKey(schema, "minimum")
      hasEMin == HasKey(schema, "exclusiveMinimum")
  IN
  IF hasMin /\ hasEMin
    THEN IF toFloat64(schema["exclusiveMinimum"]) >= toFloat64(schema["minimum"])
           THEN [v |-> toFloat64(schema["exclusiveMinimum"]), excl |-> TRUE]
           ELSE [v |-> toFloat64(schema["minimum"]), excl |-> FALSE]
  ELSE IF hasEMin THEN [v |-> toFloat64(schema["exclusiveMinimum"]), excl |-> TRUE]
  ELSE IF hasMin THEN [v |-> toFloat64(schema["minimum"]), excl |-> FALSE]
  ELSE [v |-> 0, excl |-> FALSE]

effectiveUpperBound(schema) ==
  LET hasMax == HasKey(schema, "maximum")
      hasEMax == HasKey(schema, "exclusiveMaximum")
  IN
  IF hasMax /\ hasEMax
    THEN IF toFloat64(schema["exclusiveMaximum"]) <= toFloat64(schema["maximum"])
           THEN [v |-> toFloat64(schema["exclusiveMaximum"]), excl |-> TRUE]
           ELSE [v |-> toFloat64(schema["maximum"]), excl |-> FALSE]
  ELSE IF hasEMax THEN [v |-> toFloat64(schema["exclusiveMaximum"]), excl |-> TRUE]
  ELSE IF hasMax THEN [v |-> toFloat64(schema["maximum"]), excl |-> FALSE]
  ELSE [v |-> 0, excl |-> FALSE]

lowerBoundLessOrEqual(a, b) ==
  IF a.v < b.v THEN TRUE ELSE IF a.v > b.v THEN FALSE ELSE ~(a.excl /\ ~b.excl)

lowerBoundGreaterOrEqual(a, b) ==
  IF a.v > b.v THEN TRUE ELSE IF a.v < b.v THEN FALSE ELSE ~(b.excl /\ ~a.excl)

upperBoundLessOrEqual(a, b) ==
  IF a.v < b.v THEN TRUE ELSE IF a.v > b.v THEN FALSE ELSE ~(b.excl /\ ~a.excl)

upperBoundGreaterOrEqual(a, b) ==
  IF a.v > b.v THEN TRUE ELSE IF a.v < b.v THEN FALSE ELSE ~(a.excl /\ ~b.excl)

compatNumericBounds(tgt, cand, isInput) ==
  LET tgtLo == effectiveLowerBound(tgt)
      candLo == effectiveLowerBound(cand)
      tgtHi == effectiveUpperBound(tgt)
      candHi == effectiveUpperBound(cand)
      tgtHasLo == hasKey(tgt, "minimum") \/ hasKey(tgt, "exclusiveMinimum")
      tgtHasHi == hasKey(tgt, "maximum") \/ hasKey(tgt, "exclusiveMaximum")
      candHasLo == hasKey(cand, "minimum") \/ hasKey(cand, "exclusiveMinimum")
      candHasHi == hasKey(cand, "maximum") \/ hasKey(cand, "exclusiveMaximum")
  IN
  IF isInput
    THEN /\ (tgtHasLo /\ candHasLo) => lowerBoundLessOrEqual(candLo, tgtLo)
         /\ (tgtHasHi /\ candHasHi) => upperBoundGreaterOrEqual(candHi, tgtHi)
    ELSE /\ tgtHasLo => (candHasLo /\ lowerBoundGreaterOrEqual(candLo, tgtLo))
         /\ tgtHasHi => (candHasHi /\ upperBoundLessOrEqual(candHi, tgtHi))

compatSimpleBounds(tgt, cand, isInput, minKey, maxKey) ==
  IF isInput
    THEN /\ (hasKey(tgt, minKey) /\ hasKey(cand, minKey))
              => ~(toFloat64(cand[minKey]) > toFloat64(tgt[minKey]))
         /\ (hasKey(tgt, maxKey) /\ hasKey(cand, maxKey))
              => ~(toFloat64(cand[maxKey]) < toFloat64(tgt[maxKey]))
    ELSE /\ hasKey(tgt, minKey)
              => (hasKey(cand, minKey) /\ ~(toFloat64(cand[minKey]) < toFloat64(tgt[minKey])))
         /\ hasKey(tgt, maxKey)
              => (hasKey(cand, maxKey) /\ ~(toFloat64(cand[maxKey]) > toFloat64(tgt[maxKey])))

compatStringBounds(tgt, cand, isInput) ==
  compatSimpleBounds(tgt, cand, isInput, "minLength", "maxLength")

compatArrayBounds(tgt, cand, isInput) ==
  compatSimpleBounds(tgt, cand, isInput, "minItems", "maxItems")

\* unionVariants: [ok, vars]; oneOf is preferred over anyOf.
unionVariants(schema) ==
  LET key == IF HasKey(schema, "oneOf") THEN "oneOf" ELSE "anyOf"
      arr == asSlice(schema, key)
  IN
  IF ~hasUnion(schema) \/ schema[key].t # "arr" \/ (\E i \in 1..Len(arr) : arr[i].t # "obj")
    THEN [ok |-> FALSE, vars |-> <<>>]
    ELSE [ok |-> TRUE, vars |-> [i \in 1..Len(arr) |-> arr[i].m]]

RECURSIVE compat(_, _, _)

\* compatObject whose output rule leaves additionalProperties alone.
compatObjectIgnoringAdditional(tgt, cand, isInput) ==
  LET tgtReq == stringSet(tgt, "required")
      candReq == stringSet(cand, "required")
      tgtProps == asMap(tgt, "properties")
      candProps == asMap(cand, "properties")
      both(p) == HasKey(tgtProps, p) /\ HasKey(candProps, p)
                 /\ tgtProps[p].t = "obj" /\ candProps[p].t = "obj"
  IN
  IF isInput
    THEN /\ candReq \subseteq tgtReq
         /\ \A p \in DOMAIN tgtProps : both(p) => compat(tgtProps[p].m, candProps[p].m, TRUE)
    ELSE /\ tgtReq \subseteq candReq
         /\ \A p \in DOMAIN candProps :
              both(p) => compat(tgtProps[p].m, candProps[p].m, FALSE)

compatObject(tgt, cand, isInput) ==
  LET tgtReq == stringSet(tgt, "required")
      candReq == stringSet(cand, "required")
      tgtProps == asMap(tgt, "properties")
      candProps == asMap(cand, "properties")
      both(p) == HasKey(tgtProps, p) /\ HasKey(candProps, p)
                 /\ tgtProps[p].t = "obj" /\ candProps[p].t = "obj"
      tgtAPFalse == HasKey(tgt, "additionalProperties")
                    /\ tgt["additionalProperties"] = Bool(FALSE)
      candAPFalse == HasKey(cand, "additionalProperties")
                     /\ cand["additionalProperties"] = Bool(FALSE)
  IN
  IF isInput
    THEN /\ candReq \subseteq tgtReq
         /\ \A p \in DOMAIN tgtProps : both(p) => compat(tgtProps[p].m, candProps[p].m, TRUE)
    ELSE /\ tgtReq \subseteq candReq
         /\ \A p \in DOMAIN candProps :
              /\ ~HasKey(tgtProps, p) => ~tgtAPFalse
              /\ both(p) => compat(tgtProps[p].m, candProps[p].m, FALSE)
         /\ IF tgtAPFalse THEN candAPFalse
            ELSE IF IsMap(tgt, "additionalProperties")
              THEN IF IsMap(cand, "additionalProperties")
                     THEN compat(tgt["additionalProperties"].m,
                                 cand["additionalProperties"].m, FALSE)
                     ELSE candAPFalse
            ELSE TRUE

compatArray(tgt, cand, isInput) == compat(asMap(tgt, "items"), asMap(cand, "items"), isInput)

\* compatUnion that is content with one compatible pair of variants.
compatUnionSomePair(tgt, cand, isInput) ==
  LET tgtVars == unionVariants(tgt)
      candVars == unionVariants(cand)
  IN
  IF ~tgtVars.ok \/ ~candVars.ok THEN FALSE
  ELSE \E i \in 1..Len(tgtVars.vars) : \E j \in 1..Len(candVars.vars) :
         compat(tgtVars.vars[i], candVars.vars[j], isInput)

compatUnion(tgt, cand, isInput) ==
  LET tgtVars == unionVariants(tgt)
      candVars == unionVariants(cand)
  IN
  IF ~tgtVars.ok \/ ~candVars.ok THEN FALSE
  ELSE IF isInput
    THEN \A i \in 1..Len(tgtVars.vars) : \E j \in 1..Len(candVars.vars) :
           compat(tgtVars.vars[i], candVars.vars[j], TRUE)
    ELSE \A j \in 1..Len(candVars.vars) : \E i \in 1..Len(tgtVars.vars) :
           compat(tgtVars.vars[i], candVars.vars[j], FALSE)

\* compat with a Top target that accepts every candidate in both directions.
compatTopTargetAccepts(tgt, cand, isInput) ==
  LET tgtTypes == typeSet(tgt)
      candTypes == typeSet(cand)
      either(t) == hasType(tgt, t) \/ hasType(cand, t)
  IN
  IF DOMAIN tgt = {} THEN TRUE
  ELSE IF DOMAIN cand = {} THEN isInput
  ELSE /\ (~tgtTypes.nil \/ ~candTypes.nil)
            => (IF isInput THEN subsetTypes(tgtTypes, candTypes)
                           ELSE subsetTypes(candTypes, tgtTypes))
       /\ compatConstEnum(tgt, cand, isInput)
       /\ either("object") => compatObject(tgt, cand, isInput)
       /\ either("array") => compatArray(tgt, cand, isInput)
       /\ (either("number") \/ either("integer")) => compatNumericBounds(tgt, cand, isInput)
       /\ either("string") => compatStringBounds(tgt, cand, isInput)
       /\ either("array") => compatArrayBounds(tgt, cand, isInput)
       /\ (hasUnion(tgt) \/ hasUnion(cand)) => compatUnion(tgt, cand, isInput)

compat(tgt, cand, isInput) ==
  LET tgtTypes == typeSet(tgt)
      candTypes == typeSet(cand)
      either(t) == hasType(tgt, t) \/ hasType(cand, t)
  IN
  IF DOMAIN tgt = {} THEN (IF isInput THEN DOMAIN cand = {} ELSE TRUE)
  ELSE IF DOMAIN cand = {} THEN isInput
  ELSE /\ (~tgtTypes.nil \/ ~candTypes.nil)
            => (IF isInput THEN subsetTypes(tgtTypes, candTypes)
                           ELSE subsetTypes(candTypes, tgtTypes))
       /\ compatConstEnum(tgt, cand, isInput)
       /\ either("object") => compatObject(tgt, cand, isInput)
       /\ either("array") => compatArray(tgt, cand, isInput)
       /\ (either("number") \/ either("integer")) => compatNumericBounds(tgt, cand, isInput)
       /\ either("string") => compatStringBounds(tgt, cand, isInput)
       /\ either("array") => compatArrayBounds(tgt, cand, isInput)
       /\ (hasUnion(tgt) \/ hasUnion(cand)) => compatUnion(tgt, cand, isInput)

inputCompatible(tgt, cand) == IF DOMAIN cand = {} THEN TRUE ELSE compat(tgt, cand, TRUE)

outputCompatible(tgt, cand) ==
  IF DOMAIN cand = {} THEN DOMAIN tgt = {} ELSE compat(tgt, cand, FALSE)

----------------------------------------------------------------------------
(* The public methods.  Two Normalizer instances share Root, Base and the  *)
(* fetcher (one instance per goroutine); each makes one top-level call.    *)

Normalizers == {1, 2}

\* The state a call of the methods starts in: n.refStack = map[string]bool{}.
CallState(h) ==
  [h |-> h, rs |-> {}, tr |-> <<>>, base |-> Base, fetch |-> Fetch, root |-> Root]

\* Normalize(schema): every outcome.
NormalizeOutcomes(st, schema) == normalizeAt(st, schema, "", MaxDepth)

\* InputCompatible / OutputCompatible: target and candidate are normalized
\* one after the other on the same refStack; the first error ends the call.
\* The value of an "ok" outcome is the sequence of the normalized schemas.
RECURSIVE normalizeEach(_, _, _)
normalizeEach(st, schemas, done) ==
  IF schemas = <<>> THEN {Ok(st, done)}
  ELSE UNION { IF o.k # "ok" THEN {o}
               ELSE normalizeEach(o.st, Tail(schemas), Append(done, o.v)) :
               o \in normalizeAt(st, Head(schemas), "", MaxDepth) }

\* The j-th normalized schema of an outcome of normalizeEach, as a tree.
normalized(o, j) == Deref(o.st.h, o.v[j], MaxDepth).m

\* return inputCompatible(ti, tc) / outputCompatible(ti, tc)
decided(o, b) == IF o.k # "ok" THEN o ELSE Ok(o.st, Bool(b))

\* What the caller sees of an outcome: the returned tree or error.
Observe(o) ==
  [k |-> o.k,
   v |-> IF o.k = "ok" THEN Deref(o.st.h, o.v, MaxDepth) ELSE Null,
   err |-> o.err]

NoResult == [k |-> "", v |-> Null, err |-> NoErr]
NoOp == [name |-> "", arg |-> ""]

\* A stack overflow ends the process: nothing runs after it.
Alive == \A j \in Normalizers : result[j].k # "overflow"

\* The call on instance i returns with outcome o.
Return(i, name, arg, o) ==
  /\ heap' = o.st.h
  /\ refStack' = [refStack EXCEPT ![i] = o.st.rs]
  /\ trace' = [trace EXCEPT ![i] = o.st.tr]
  /\ result' = [result EXCEPT ![i] = Observe(o)]
  /\ op' = [op EXCEPT ![i] = [name |-> name, arg |-> arg]]
  /\ pc' = [pc EXCEPT ![i] = "done"]
  /\ heap0' = [heap0 EXCEPT ![i] = heap]
  /\ UNCHANGED <<Root, Base, Fetch, target, candidate, document, calls>>

Normalize(i) ==
  /\ pc[i] = "idle" /\ Alive
  /\ \E arg \in {"target", "candidate"} :
       \E o \in NormalizeOutcomes(CallState(heap), IF arg = "target" THEN target ELSE candidate) :
         Return(i, "Normalize", arg, o)

InputCompatible(i) ==
  /\ pc[i] = "idle" /\ Alive
  /\ \E o \in normalizeEach(CallState(heap), <<target, candidate>>, <<>>) :
       Return(i, "InputCompatible", "",
              decided(o, inputCompatible(normalized(o, 1), normalized(o, 2))))

OutputCompatible(i) ==
  /\ pc[i] = "idle" /\ Alive
  /\ \E o \in normalizeEach(CallState(heap), <<target, candidate>>, <<>>) :
       Return(i, "OutputCompatible", "",
              decided(o, outputCompatible(normalized(o, 1), normalized(o, 2))))

----------------------------------------------------------------------------
(* The documents the callers hand in.  They are written as JSON trees and  *)
(* decoded into the heap by Init, as json.Unmarshal builds them: no two    *)
(* maps of a decoded document are shared.                                  *)

Top == Obj(EmptyMap)
O3(k1, v1, k2, v2, k3, v3) == Obj(Put(Put(Put(EmptyMap, k1, v1), k2, v2), k3, v3))
RefTo(r) == O1("$ref", Str(r))
Typed(t) == O1("type", Str(t))
Props1(k, v) == O1("properties", O1(k, v))
AllOf(q) == O1("allOf", Arr(q))

RootSelf == O1("a", RefTo("#/a"))
RootChain == O3("a", RefTo("#/b"), "b", RefTo("#/c"), "c", RefTo("#/a"))
RootNested ==
  O3("a", Props1("p", RefTo("#/a")), "b", O1("items", RefTo("#/b")), "c", AllOf(<<RefTo("#/c")>>))
RootUnion == O2("a", O1("oneOf", Arr(<<Typed("string"), RefTo("#/a")>>)),
                "b", O1("additionalProperties", RefTo("#/b")))
RootGood == O3("a", O2("type", Str("string"), "title", Str("t")), "b", Typed("number"),
               "c", Num(5))
RootBad == O2("a", O1("pattern", Str("x")), "b", Props1("p", O1("format", Str("x"))))
RootMut == O2("a", O1("items", Props1("x", Top)), "b", O1("items", Props1("y", Top)))
RootAlias == O2("a", RefTo("#/b"), "b", Typed("number"))
RootLoop == O1("b", Props1("p", Props1("y", Props1("p", Props1("x", Top)))))

Sc(root, t, c, base, fetch) ==
  [root |-> root, target |-> t, candidate |-> c, base |-> base, fetch |-> fetch]

\* References: cycles, pointers, external documents.
RefScenarios ==
  { Sc(RootSelf, RefTo("#/a"), Top, "", FALSE),
    Sc(RootChain, RefTo("#/a"), RefTo("#/b"), "", FALSE),
    Sc(RootNested, RefTo("#/a"), RefTo("#/b"), "", FALSE),
    Sc(RootNested, RefTo("#/c"), AllOf(<<RefTo("#/c")>>), "", FALSE),
    Sc(RootUnion, RefTo("#/a"), RefTo("#/b"), "", FALSE),
    Sc(RootGood, RefTo("#/a"), RefTo("#/b"), "", FALSE),
    Sc(RootGood, RefTo("#/c"), RefTo("#/nope"), "", FALSE),
    Sc(RootGood, RefTo("#frag"), RefTo("%zz"), "", FALSE),
    Sc(RootGood, RefTo("#"), O1("$ref", Num(5)), "", FALSE),
    Sc(RootGood, O1("$ref", Str(" ")), O2("$ref", Str(""), "type", Str("string")), "", FALSE),
    Sc(RootGood, O2("properties", O2("p", RefTo("#/a"), "q", RefTo("#/a")), "type", Str("object")),
       O1("items", RefTo("#/b")), "", FALSE),
    Sc(RootGood, AllOf(<<RefTo("#/a"), Typed("string")>>),
       AllOf(<<RefTo("#/a"), RefTo("#/b")>>), "", FALSE),
    Sc(RootGood, AllOf(<<RefTo("#/a"), RefTo("#/a")>>), AllOf(<<RefTo("#/c")>>), "", FALSE),
    Sc(Top, RefTo("https://example.com/s.json#/Foo"), RefTo("other.json#/x"), "", TRUE),
    Sc(Top, RefTo("https://example.com/s.json#/Foo"), RefTo("other.json#/x"), ExampleBase, TRUE),
    Sc(Top, RefTo("https://example.com/s.json#/Foo"), RefTo("other.json#/x"), ExampleBase, FALSE),
    Sc(Top, RefTo("https://example.com/bad.json#/Foo"), Null, "", TRUE),
    Sc(Top, RefTo("https://example.com/loop.json#/a"), RefTo("https://example.com/garbled.json#/a"), "", TRUE),
    Sc(Top, AllOf(<<RefTo("https://example.com/loop.json#/a")>>), Props1("p", RefTo("https://example.com/loop.json#/a")), "", FALSE),
    Sc(RootGood, O1("oneOf", Arr(<<RefTo("#/b"), RefTo("#/b")>>)),
       O2("items", RefTo("#/b"), "properties", O1("p", RefTo("#/b"))), "", FALSE),
    Sc(RootGood, RefTo("#/a"), RefTo("#/a"), "", FALSE) }

\* Keywords outside the profile, annotations, malformed keywords.
ProfileScenarios ==
  { Sc(Top, O2("type", Str("string"), "pattern", Str("x")), Typed("string"), "", FALSE),
    Sc(Top, O2("pattern", Str("x"), "format", Str("x")), Props1("p", O1("pattern", Str("x"))),
       "", FALSE),
    Sc(Top, O1("properties", O2("p", O1("pattern", Str("x")), "q", O1("format", Str("x")))),
       O1("items", O1("pattern", Str("x"))), "", FALSE),
    Sc(Top, O1("oneOf", Arr(<<Typed("string"), O1("pattern", Str("x"))>>)),
       O1("additionalProperties", O1("pattern", Str("x"))), "", FALSE),
    Sc(Top, AllOf(<<Typed("string"), O1("pattern", Str("x"))>>),
       AllOf(<<O1("oneOf", Arr(<<Top>>))>>), "", FALSE),
    Sc(RootBad, RefTo("#/a"), AllOf(<<RefTo("#/a")>>), "", FALSE),
    Sc(RootBad, AllOf(<<RefTo("#/b")>>), Props1("p", RefTo("#/a")), "", FALSE),
    Sc(Top, AllOf(<<Props1("p", Typed("string")), Props1("p", O1("pattern", Str("x")))>>),
       AllOf(<<O1("items", Typed("string")), O1("items", O1("format", Str("x")))>>), "", FALSE),
    Sc(Top, O3("title", Str("t"), "type", Str("string"), "$defs", O1("a", Typed("number"))),
       O2("description", Str("t"), "properties", O1("p", O1("default", Num(1)))), "", FALSE),
    Sc(Top, O1("type", Arr(<<Str("string"), Str("null"), Str("string")>>)),
       O2("type", Str("object"), "required", Arr(<<Str("b"), Str("a"), Str("b")>>)), "", FALSE),
    Sc(Top, O1("type", Num(1)), O1("required", Str("a")), "", FALSE),
    Sc(Top, O1("properties", O2("p", Num(1), "q", Str("x"))), O1("items", Num(1)), "", FALSE),
    Sc(Top, O1("allOf", Num(1)), AllOf(<<Num(1)>>), "", FALSE),
    Sc(Top, AllOf(<<Typed("string"), Typed("number")>>),
       AllOf(<<Typed("integer"), Typed("number"), O1("minimum", Num(1)), O1("minimum", Num(0))>>),
       "", FALSE),
    Sc(Top, AllOf(<<O1("const", Num(1)), O1("const", Num(2))>>),
       AllOf(<<O1("enum", Arr(<<Num(1), Num(2)>>)), O1("enum", Arr(<<Num(2)>>))>>), "", FALSE) }

\* Unions, and allOf branches whose nested schemas overlap.
MergeBoth == AllOf(<<RefTo("#/a"), RefTo("#/b")>>)

UnionScenarios ==
  { Sc(Top, O1("oneOf", Arr(<<Typed("string"), Typed("number")>>)),
       O1("oneOf", Arr(<<Typed("number"), Typed("string")>>)), "", FALSE),
    Sc(Top, O1("anyOf", Arr(<<Typed("object"), Top, Typed("array")>>)),
       O1("anyOf", Arr(<<Typed("array"), Typed("object"), Top>>)), "", FALSE),
    Sc(Top, O1("oneOf", Arr(<<Typed("string"), Num(1)>>)), O1("anyOf", Num(1)), "", FALSE),
    Sc(Top, Props1("p", O1("oneOf", Arr(<<Typed("number"), Typed("integer")>>))),
       O2("oneOf", Arr(<<Typed("string")>>), "anyOf", Arr(<<Typed("string")>>)), "", FALSE),
    Sc(RootMut, MergeBoth, RefTo("#/a"), "", FALSE),
    Sc(RootMut, O1("oneOf", Arr(<<MergeBoth, RefTo("#/a")>>)),
       O1("oneOf", Arr(<<RefTo("#/a"), MergeBoth>>)), "", FALSE),
    Sc(Top, AllOf(<<Props1("p", Props1("x", Top)), Props1("p", Props1("y", Top))>>),
       AllOf(<<O1("items", Props1("x", Top)), O1("items", Props1("y", Top))>>), "", FALSE),
    Sc(Top, AllOf(<<Props1("p", Typed("string")), Props1("q", Typed("number"))>>),
       AllOf(<<O1("additionalProperties", Props1("x", Top)),
               O1("additionalProperties", Props1("y", Top))>>), "", FALSE),
    Sc(RootLoop, AllOf(<<RefTo("#/b/properties/p/properties/y"), RefTo("#/b")>>), Top,
       "", FALSE) }

\* The schemas of the compatibility scenarios: pairs over this set.
CompatSchemas ==
  { Top,
    Typed("number"),
    Typed("integer"),
    O2("type", Str("number"), "minimum", Num(1)),
    O2("type", Str("number"), "exclusiveMinimum", Num(1)),
    O1("minimum", Num(0)),
    O1("maximum", Num(5)),
    O2("type", Str("string"), "const", Str("a")),
    O2("type", Str("string"), "enum", Arr(<<Str("a"), Str("b")>>)),
    O2("type", Str("string"), "minLength", Num(1)),
    Typed("object"),
    O3("type", Str("object"), "properties", O1("a", Typed("string")),
       "required", Arr(<<Str("a")>>)),
    O2("type", Str("object"), "additionalProperties", Bool(FALSE)),
    O2("type", Str("array"), "items", Typed("number")) }

CompatScenarios == { Sc(Top, t, c, "", FALSE) : t \in CompatSchemas, c \in CompatSchemas }

\* Pairs that take the decider through each of its rules: Top on one side
\* (as written and after normalization, at the root and nested), const and
\* enum, the object rules with and without a declared type, and the numeric
\* bounds with ties between inclusive and exclusive ones.
Titled == O1("title", Str("t"))
Enum(q) == O1("enum", Arr(q))
Const(v) == O1("const", v)
Required(q) == O1("required", Arr(q))
ObjectWith(k, v) == O2("type", Str("object"), k, v)
NumberWith(k, v) == O2("type", Str("number"), k, v)
OneOf(q) == O1("oneOf", Arr(q))

DeciderPairs ==
  { <<Titled, Typed("string")>>,
    <<Typed("string"), Titled>>,
    <<Titled, O1("$defs", O1("a", Typed("number")))>>,
    <<ObjectWith("properties", O1("p", Titled)),
      ObjectWith("properties", O1("p", Typed("string")))>>,
    <<ObjectWith("properties", O1("p", Typed("string"))),
      ObjectWith("properties", O1("p", Top))>>,
    <<Typed("array"), O2("type", Str("array"), "items", Typed("number"))>>,
    <<O2("type", Str("array"), "items", Typed("number")), Typed("array")>>,
    <<ObjectWith("additionalProperties", Titled),
      ObjectWith("additionalProperties", Typed("string"))>>,
    <<ObjectWith("additionalProperties", Typed("string")),
      ObjectWith("additionalProperties", Top)>>,
    <<Enum(<<Str("a"), Str("b")>>), Enum(<<Str("a")>>)>>,
    <<Enum(<<Str("a"), Str("b")>>), Enum(<<Str("a"), Str("c")>>)>>,
    <<Enum(<<Str("a"), Str("b")>>), Typed("string")>>,
    <<Enum(<<Str("a"), Str("a")>>), Const(Str("a"))>>,
    <<Enum(<<Str("a"), Str("b")>>), Const(Str("a"))>>,
    <<Const(Str("a")), Enum(<<Str("a")>>)>>,
    <<Const(Str("a")), Const(Str("b"))>>,
    <<O2("const", Str("a"), "enum", Arr(<<Str("a"), Str("b")>>)), Const(Str("b"))>>,
    <<Const(Num(1)), Enum(<<Str("1"), Num(1)>>)>>,
    <<Props1("p", Typed("string")), Props1("p", Typed("number"))>>,
    <<Required(<<Str("a")>>), Required(<<Str("a"), Str("b")>>)>>,
    <<ObjectWith("required", Arr(<<Str("a")>>)),
      ObjectWith("required", Arr(<<Str("a"), Str("b")>>))>>,
    <<ObjectWith("properties", O1("p", Typed("integer"))),
      O3("type", Str("object"), "properties", O2("p", Typed("number"), "q", Typed("string")),
         "additionalProperties", Bool(FALSE))>>,
    <<ObjectWith("properties", O1("p", Typed("number"))),
      Props1("p", Typed("integer"))>>,
    <<O3("type", Str("object"), "properties", O1("p", Typed("number")),
         "additionalProperties", Bool(FALSE)),
      O3("type", Str("object"), "properties", O1("p", Typed("integer")),
         "additionalProperties", Bool(FALSE))>>,
    <<O3("type", Str("object"), "properties", O1("p", Typed("number")),
         "additionalProperties", Bool(FALSE)),
      O3("type", Str("object"), "properties", O2("p", Typed("number"), "q", Typed("string")),
         "additionalProperties", Bool(FALSE))>>,
    <<ObjectWith("additionalProperties", Typed("number")),
      ObjectWith("additionalProperties", Typed("integer"))>>,
    <<ObjectWith("additionalProperties", Typed("string")),
      ObjectWith("additionalProperties", Bool(FALSE))>>,
    <<ObjectWith("additionalProperties", Typed("string")),
      ObjectWith("additionalProperties", Bool(TRUE))>>,
    <<ObjectWith("additionalProperties", Typed("string")), Typed("object")>>,
    <<OneOf(<<Typed("integer"), Typed("string")>>), OneOf(<<Typed("number"), Typed("string")>>)>>,
    <<OneOf(<<Typed("integer"), Typed("string")>>), OneOf(<<Typed("string")>>)>>,
    <<O1("anyOf", Arr(<<Typed("integer")>>)), OneOf(<<Typed("number"), Typed("integer")>>)>>,
    <<OneOf(<<Typed("string")>>), Typed("string")>>,
    <<OneOf(<<Typed("string"), Top>>), Titled>>,
    <<NumberWith("minimum", Num(0)), NumberWith("exclusiveMinimum", Num(0))>>,
    <<NumberWith("maximum", Num(5)), NumberWith("exclusiveMaximum", Num(5))>>,
    <<NumberWith("exclusiveMaximum", Num(5)), NumberWith("maximum", Num(4))>>,
    <<O3("type", Str("number"), "minimum", Num(0), "exclusiveMinimum", Num(0)),
      NumberWith("minimum", Num(0))>>,
    <<O3("type", Str("number"), "minimum", Num(2), "exclusiveMinimum", Num(0)),
      NumberWith("exclusiveMinimum", Num(1))>>,
    <<O3("type", Str("number"), "maximum", Num(5), "exclusiveMaximum", Num(5)),
      NumberWith("maximum", Num(5))>>,
    <<O3("type", Str("number"), "minimum", Num(0), "maximum", Num(5)), Typed("integer")>>,
    <<O3("type", Str("number"), "minimum", Num(0), "maximum", Num(5)), Typed("number")>>,
    <<O2("type", Str("integer"), "minimum", Num(0)),
      O3("type", Str("number"), "minimum", Num(1), "maximum", Num(5))>> }

\* Each pair is decided in both orders.
DeciderScenarios ==
  { Sc(Top, p[1], p[2], "", FALSE) : p \in DeciderPairs }
    \cup { Sc(Top, p[2], p[1], "", FALSE) : p \in DeciderPairs }

\* allOf whose branches declare types, one type or several, with branches
\* that declare none.
Types(q) == O1("type", StrArr(q))

MergeScenarios ==
  { Sc(Top, AllOf(<<Typed("number"), Typed("number")>>),
       AllOf(<<Typed("integer"), Typed("integer")>>), "", FALSE),
    Sc(Top, AllOf(<<Types(<<"string", "number">>), O1("minimum", Num(0)),
                    Types(<<"string", "integer">>)>>),
       AllOf(<<Typed("number"), Typed("integer"), Typed("number")>>), "", FALSE),
    Sc(Top, AllOf(<<Types(<<"number", "integer">>), Types(<<"string", "null">>)>>),
       AllOf(<<Types(<<"string", "null">>), Types(<<"null", "boolean">>)>>), "", FALSE),
    Sc(Top, AllOf(<<O1("minimum", Num(0)), Typed("integer")>>),
       AllOf(<<Types(<<"integer", "number">>), Types(<<"number", "integer">>)>>), "", FALSE),
    Sc(Top, AllOf(<<O1("minimum", Num(0)), O1("maximum", Num(5))>>),
       AllOf(<<Types(<<"object", "array">>), Types(<<"array", "string">>),
               Types(<<"string", "object">>)>>), "", FALSE),
    Sc(RootUnion, AllOf(<<RefTo("#/a")>>),
       AllOf(<<O1("anyOf", Arr(<<Typed("string")>>))>>), "", FALSE) }

\* Numbers decoded with UseNumber whose literals are beyond the range of a
\* double: 1e400 and 2e400.  CanonicalString fails on both.
Beyond1 == JSONNumber(<<49, 101, 52, 48, 48>>)
Beyond2 == JSONNumber(<<50, 101, 52, 48, 48>>)

UnserializableScenarios ==
  { Sc(Top, Const(Beyond1), Const(Beyond2), "", FALSE),
    Sc(Top, Enum(<<Beyond1>>), Enum(<<Str("a")>>), "", FALSE),
    Sc(Top, AllOf(<<Enum(<<Beyond1, Num(1)>>), Enum(<<Beyond2>>)>>),
       AllOf(<<Const(Beyond1), Const(Beyond2)>>), "", FALSE) }

\* A schema given as both target and candidate.
SelfSchemas ==
  { O2("const", Str("a"), "enum", Arr(<<Str("b")>>)),
    O2("const", Str("a"), "enum", Arr(<<Str("a"), Str("b")>>)),
    Enum(<<Str("a"), Str("b")>>),
    Enum(<<>>),
    O1("type", Arr(<<>>)),
    O3("type", Str("object"), "required", Arr(<<Str("p")>>),
       "properties", O1("p", Typed("string"))),
    ObjectWith("additionalProperties", Typed("number")),
    ObjectWith("additionalProperties", Bool(FALSE)),
    O2("type", Str("array"), "items", Typed("integer")),
    O3("type", Str("number"), "minimum", Num(0), "exclusiveMinimum", Num(0)),
    O3("type", Str("integer"), "exclusiveMaximum", Num(5), "maximum", Num(5)),
    O3("type", Str("string"), "minLength", Num(1), "maxLength", Num(2)),
    OneOf(<<Typed("string"), Typed("number")>>),
    OneOf(<<>>),
    Props1("p", O2("const", Str("a"), "enum", Arr(<<Str("b")>>))),
    Titled }

SelfScenarios == { Sc(Top, s, s, "", FALSE) : s \in SelfSchemas }

\* allOf with one branch: a nested allOf, a reference to a reference, and
\* branches whose keywords the merge knows.
SingleBranchScenarios ==
  { Sc(RootAlias, AllOf(<<RefTo("#/a")>>), AllOf(<<AllOf(<<Typed("string")>>)>>), "", FALSE),
    Sc(RootAlias, AllOf(<<RefTo("#/b")>>),
       AllOf(<<O3("type", Str("object"), "required", Arr(<<Str("p")>>),
                  "properties", O1("p", RefTo("#/a")))>>), "", FALSE),
    Sc(Top, AllOf(<<O3("type", Str("number"), "minimum", Num(0), "maximum", Num(5))>>),
       AllOf(<<O2("type", Str("array"), "items", Typed("integer"))>>), "", FALSE) }

Scenarios ==
  RefScenarios \cup ProfileScenarios \cup UnionScenarios \cup CompatScenarios
    \cup DeciderScenarios \cup MergeScenarios \cup UnserializableScenarios
    \cup SelfScenarios \cup SingleBranchScenarios

----------------------------------------------------------------------------
(* The state machine.                                                       *)

Init ==
  \E sc \in Scenarios :
    LET l1 == Load(<<>>, sc.root)
        l2 == Load(l1.h, sc.target)
        l3 == Load(l2.h, sc.candidate)
    IN /\ heap = l3.h
       /\ Root = l1.v
       /\ target = l2.v
       /\ candidate = l3.v
       /\ Base = sc.base
       /\ Fetch = sc.fetch
       /\ refStack = [i \in Normalizers |-> {}]
       /\ pc = [i \in Normalizers |-> "idle"]
       /\ op = [i \in Normalizers |-> NoOp]
       /\ result = [i \in Normalizers |-> NoResult]
       /\ trace = [i \in Normalizers |-> <<>>]
       /\ heap0 = [i \in {0} \cup Normalizers |-> l3.h]
       /\ document = Null
       /\ calls = <<>>

Next ==
  \E i \in Normalizers :
    \/ Normalize(i)
    \/ InputCompatible(i)
    \/ OutputCompatible(i)

Spec == Init /\ [][Next]_vars

----------------------------------------------------------------------------
(* Callers of canonicaljson.Marshal.  A caller holds a JSON document: its  *)
(* parse tree, members in the order they are written.  It hands Marshal    *)
(* the text of the document, or the Go value the document decodes to, or   *)
(* bytes that an earlier call returned; and it may reorder the members of  *)
(* an object of the document.                                               *)

\* Text that is written as it stands (it need not be JSON).
Raw(b) == [t |-> "raw", s |-> "", n |-> 0, e |-> b, m |-> <<>>]

HexUpper(d) == IF d < 10 THEN 48 + d ELSE 55 + d

EscapeUnit(u) ==
  <<92, 117, HexUpper(u \div 4096), HexUpper((u \div 256) % 16), HexUpper((u \div 16) % 16),
    HexUpper(u % 16)>>

RECURSIVE EscapeUnits(_)
EscapeUnits(us) == IF us = <<>> THEN <<>> ELSE EscapeUnit(Head(us)) \o EscapeUnits(Tail(us))

\* One code point of a string as a text may spell it.  "plain": literal
\* UTF-8, escapes only where JSON demands them.  "spaced": every character
\* that is not a printable ASCII letter as \uXXXX escapes of its UTF-16
\* code units, and "/" as \/.
SpellRune(r, style) ==
  IF r = 47 /\ style = "spaced" THEN <<92, 47>>
  ELSE IF r \in {34, 92} /\ style = "plain" THEN <<92, r>>
  ELSE IF r < 32 \/ r \in {34, 92} \/ (r > 126 /\ style = "spaced")
    THEN EscapeUnits(utf16Encode(<<r>>))
  ELSE utf8(<<r>>)

RECURSIVE SpellRunes(_, _)
SpellRunes(rs, style) ==
  IF rs = <<>> THEN <<>> ELSE SpellRune(Head(rs), style) \o SpellRunes(Tail(rs), style)

Quoted(rs, style) == <<34>> \o SpellRunes(rs, style) \o <<34>>

Gap(style) == IF style = "spaced" THEN <<32>> ELSE <<>>

RECURSIVE Written(_, _)
RECURSIVE WrittenItems(_, _, _)
RECURSIVE WrittenMembers(_, _, _)
Written(d, style) ==
  CASE d.t = "null" -> <<110, 117, 108, 108>>
    [] d.t = "bool" -> IF d.n = 1 THEN <<116, 114, 117, 101>> ELSE <<102, 97, 108, 115, 101>>
    [] d.t = "text" -> Quoted(d.e, style)
    [] d.t \in {"lit", "raw"} -> d.e
    [] d.t = "arr" -> <<91>> \o WrittenItems(d.e, 1, style) \o <<93>>
    [] d.t = "members" -> <<123>> \o WrittenMembers(d.e, 1, style) \o Gap(style) \o <<125>>

WrittenItems(q, i, style) ==
  IF i > Len(q) THEN <<>>
  ELSE (IF i > 1 THEN <<44>> \o Gap(style) ELSE <<>>) \o Written(q[i], style)
       \o WrittenItems(q, i + 1, style)

WrittenMembers(q, i, style) ==
  IF i > Len(q) THEN <<>>
  ELSE (IF i > 1 THEN <<44>> ELSE <<>>) \o Gap(style) \o Quoted(q[i].e, style) \o <<58>>
       \o Gap(style) \o Written(q[i].m[1], style) \o WrittenMembers(q, i + 1, style)

\* The text of a document: the spaced style ends it with a newline.
TextOf(d, style) == Written(d, style) \o (IF style = "spaced" THEN <<10>> ELSE <<>>)

Styles == {"plain", "spaced"}

\* The documents obtained from d by exchanging two neighbouring members of
\* one of its objects, at any depth.
Exchanged(q, j) == [q EXCEPT ![j] = q[j + 1], ![j + 1] = q[j]]

RECURSIVE Reordered(_)
Reordered(d) ==
  IF d.t = "members"
    THEN { Members(Exchanged(d.e, j)) : j \in 1..(Len(d.e) - 1) }
         \cup UNION { { Members([d.e EXCEPT ![j] = Member(d.e[j].e, x)]) :
                        x \in Reordered(d.e[j].m[1]) } : j \in 1..Len(d.e) }
  ELSE IF d.t = "arr"
    THEN UNION { { Arr([d.e EXCEPT ![j] = x]) : x \in Reordered(d.e[j]) } : j \in 1..Len(d.e) }
  ELSE {}

\* The document decodes to a Go value that a caller can also build by hand:
\* no raw text in it, and no object with two members of one name.
RECURSIVE IsValue(_)
IsValue(d) ==
  CASE d.t = "raw" -> FALSE
    [] d.t = "arr" -> \A j \in 1..Len(d.e) : IsValue(d.e[j])
    [] d.t = "members" ->
         /\ \A j \in 1..Len(d.e) : IsValue(d.e[j].m[1])
         /\ \A j, k \in 1..Len(d.e) : d.e[j].e = d.e[k].e => j = k
    [] OTHER -> TRUE

\* The documents the callers start from.
One == JSONNumber(<<49>>)
Two == JSONNumber(<<50>>)

\* {"b":1,"a":[{"y":2,"x":"é"}]}
DocNested ==
  Members(<<Member(<<98>>, One),
            Member(<<97>>, Arr(<<Members(<<Member(<<121>>, Two),
                                           Member(<<120>>, Text(<<233>>))>>)>>))>>)

\* Names that start with U+E000 and with U+10000 (UTF-16: D800 DC00), and
\* with U+FF5E.
DocAstral ==
  Members(<<Member(<<57344>>, One), Member(<<65536, 97>>, Two), Member(<<65374>>, Null)>>)

\* {"ab":1,"a":2,"":true}
DocPrefix ==
  Members(<<Member(<<97, 98>>, One), Member(<<97>>, Two), Member(<<>>, Bool(TRUE))>>)

\* {"a":1,"a":2}
DocTwice == Members(<<Member(<<97>>, One), Member(<<97>>, Two)>>)

\* [2,1,"x",[],{}]
DocArray == Arr(<<Two, One, Text(<<120>>), Arr(<<>>), Members(<<>>)>>)

\* [1.50,1e-7,1E21,-0,100,0.000001,-12e-1]
DocNumbers ==
  Arr(<<JSONNumber(<<49, 46, 53, 48>>), JSONNumber(<<49, 101, 45, 55>>),
        JSONNumber(<<49, 69, 50, 49>>), JSONNumber(<<45, 48>>), JSONNumber(<<49, 48, 48>>),
        JSONNumber(<<48, 46, 48, 48, 48, 48, 48, 49>>),
        JSONNumber(<<45, 49, 50, 101, 45, 49>>)>>)

\* A name and a value with characters of every kind.
DocEscapes ==
  Members(<<Member(<<8, 0, 34, 233, 92>>, Text(<<92, 92, 110, 13, 31, 47, 128512, 127>>))>>)

\* 1e999; "\ud800" followed by the byte FF; 1 2; {"a":1,}; 01
DocTooLarge == JSONNumber(<<49, 101, 57, 57, 57>>)
DocLoneSurrogate == Raw(<<34, 92, 117, 100, 56, 48, 48, 255, 34>>)
DocTrailing == Raw(<<49, 32, 50>>)
DocComma == Raw(<<123, 34, 97, 34, 58, 49, 44, 125>>)
DocLeadingZero == Raw(<<48, 49>>)

\* The characters tried one by one: every control character, the
\* characters with an escape of their own, and the ends of the ranges of
\* the UTF-8 and UTF-16 encodings.
Characters ==
  (0..31) \cup {32, 34, 38, 47, 60, 92, 97, 127, 128, 233, 2047, 2048, 8232, 55295, 57344,
                65533, 65535, 65536, 128512, 1114111}

Documents ==
  {DocNested, DocAstral, DocPrefix, DocTwice, DocArray, DocNumbers, DocEscapes, DocTooLarge,
   DocLoneSurrogate, DocTrailing, DocComma, DocLeadingZero, Null}
  \cup { Text(<<r>>) : r \in Characters }
  \cup { Members(<<Member(<<r>>, Bool(FALSE))>>) : r \in {0, 10, 34, 92, 127, 65536} }

\* The calls a caller makes at most.
MaxCalls == 2

schemaVars ==
  <<heap, Root, Base, Fetch, target, candidate, refStack, pc, op, result, trace, heap0>>

Called(how, style, of, res) ==
  /\ Len(calls) < MaxCalls
  /\ calls' = Append(calls, [how |-> how, style |-> style, of |-> of, doc |-> document,
                             res |-> res])
  /\ UNCHANGED <<document, schemaVars>>

\* Marshal(json.RawMessage(text)) with a text of the document.
MarshalText ==
  /\ Len(calls) < MaxCalls
  /\ \E style \in Styles : Called("text", style, 0, MarshalJSON(TextOf(document, style)))

\* Marshal(v) with the Go value of the document.
MarshalGoValue ==
  /\ IsValue(document)
  /\ Called("value", "", 0, MarshalValue(build(document)))

\* Marshal(b) with the bytes b an earlier call returned.
MarshalAgain ==
  /\ Len(calls) < MaxCalls
  /\ \E k \in 1..Len(calls) :
       /\ calls[k].res.ok
       /\ Called("again", "", k, MarshalJSON(calls[k].res.b))

\* The caller exchanges two neighbouring members of an object.
Reorder ==
  /\ document' \in Reordered(document)
  /\ UNCHANGED <<calls, schemaVars>>

InitJCS ==
  /\ document \in Documents
  /\ calls = <<>>
  /\ heap = <<>>
  /\ Root = Null
  /\ target = Null
  /\ candidate = Null
  /\ Base = ""
  /\ Fetch = FALSE
  /\ refStack = [i \in Normalizers |-> {}]
  /\ pc = [i \in Normalizers |-> "idle"]
  /\ op = [i \in Normalizers |-> NoOp]
  /\ result = [i \in Normalizers |-> NoResult]
  /\ trace = [i \in Normalizers |-> <<>>]
  /\ heap0 = [i \in {0} \cup Normalizers |-> <<>>]

NextJCS == MarshalText \/ MarshalGoValue \/ MarshalAgain \/ Reorder

SpecJCS == InitJCS /\ [][NextJCS]_vars

----------------------------------------------------------------------------
(* Properties.  A call is looked at in the state it returns to: heap0[i] is *)
(* the heap the call on instance i started from, heap the heap now.         *)

\* Instance i has made its call and no other instance has made one.
Solo(i) == pc[i] = "done" /\ \A j \in Normalizers \ {i} : pc[j] = "idle"

\* The schema argument of the Normalize call on instance i.
Arg(i) == IF op[i].arg = "target" THEN target ELSE candidate

\* The values of a sequence that are maps.
MapsOf(q) == { q[j] : j \in { x \in 1..Len(q) : q[x].t = "ref" } }

\* The schema positions directly below the map with content f: the target
\* of its $ref when it has one to resolve, otherwise its properties values,
\* items, additionalProperties, union variants and allOf branches.
SubSchemas(h, f) ==
  IF HasKey(f, "$ref") /\ IsNonEmptyString(f["$ref"])
    THEN IF resolveRef(CallState(h), f["$ref"].s, "").ok
              /\ resolveRef(CallState(h), f["$ref"].s, "").st.h = h
           THEN MapsOf(<<resolveRef(CallState(h), f["$ref"].s, "").v>>)
           ELSE {}
  ELSE (IF HasKey(f, "properties") /\ f["properties"].t = "ref"
          THEN { x \in { h[f["properties"].n][k] : k \in DOMAIN h[f["properties"].n] } :
                   x.t = "ref" }
          ELSE {})
       \cup UNION { IF HasKey(f, key) THEN MapsOf(<<f[key]>>) ELSE {} :
                    key \in {"items", "additionalProperties"} }
       \cup UNION { IF HasKey(f, key) /\ f[key].t = "arr" THEN MapsOf(f[key].e) ELSE {} :
                    key \in {"oneOf", "anyOf", "allOf"} }

\* The keys outside the profile at the schema positions reachable from v.
RECURSIVE KeysOutside(_, _, _)
KeysOutside(h, v, d) ==
  IF d = 0 \/ v.t # "ref" THEN {}
  ELSE ((DOMAIN h[v.n]) \ (inScopeKeywords \cup annotationKeywords))
       \cup UNION { KeysOutside(h, x, d - 1) : x \in SubSchemas(h, h[v.n]) }

\* C1: Normalize fails closed: when a schema object reachable from its
\* argument (root, properties value, items, additionalProperties, union
\* variant, allOf branch, $ref target) has a key outside the profile, the
\* call returns an OutsideProfileError naming such a key, never a schema.
C1_FailsClosed ==
  \A i \in Normalizers :
    (Solo(i) /\ op[i].name = "Normalize" /\ KeysOutside(heap0[i], Arg(i), MaxDepth) # {})
      => /\ result[i].k = "err"
         /\ result[i].err.kind = "OutsideProfileError"
         /\ result[i].err.keyword \in KeysOutside(heap0[i], Arg(i), MaxDepth)

\* C2: Normalize terminates: every call returns a normalized schema or an
\* error; none runs out of stack.
C2_Terminates ==
  \A i \in Normalizers :
    (pc[i] = "done" /\ op[i].name = "Normalize") => result[i].k \in {"ok", "err"}

\* The chains of plain $ref objects that lead back to their start.
PlainCycle ==
  \/ Deref(heap0[0], Root, MaxDepth) = RootSelf
  \/ Deref(heap0[0], Root, MaxDepth) = RootChain

CycleError(e) == e.kind = "RefError" /\ e.msg = "cycle detected"

C4_NoMutation ==
  \A a \in 1..Len(heap0[0]) : heap[a] = heap0[0][a]

----------------------------------------------------------------------------
(* What a schema accepts: JSON Schema validation of an instance, for the   *)
(* keywords of the profile.  Schemas and instances are trees.               *)

\* The JSON types of an instance (every number of the model is integral).
TypesOf(inst) ==
  CASE inst.t = "null" -> {"null"}
    [] inst.t = "bool" -> {"boolean"}
    [] inst.t = "num" -> {"number", "integer"}
    [] inst.t = "str" -> {"string"}
    [] inst.t = "arr" -> {"array"}
    [] inst.t = "obj" -> {"object"}

\* The type names of a "type" keyword (a string or an array of strings).
DeclaredTypes(v) == IF v.t = "str" THEN {v.s} ELSE StringsOf(v.e)

\* What a bound keyword measures of an instance; -1 when it does not apply.
BoundApplies(key, inst) ==
  CASE key \in {"minimum", "maximum", "exclusiveMinimum", "exclusiveMaximum"} -> inst.t = "num"
    [] key \in {"minLength", "maxLength"} -> inst.t = "str"
    [] key \in {"minItems", "maxItems"} -> inst.t = "arr"

Measure(key, inst) ==
  CASE inst.t = "num" -> inst.n
    [] inst.t = "str" -> Len(Runes(inst.s))
    [] inst.t = "arr" -> Len(inst.e)

BoundHolds(key, b, x) ==
  CASE key \in {"minimum", "minLength", "minItems"} -> x >= b
    [] key \in {"maximum", "maxLength", "maxItems"} -> x <= b
    [] key = "exclusiveMinimum" -> x > b
    [] key = "exclusiveMaximum" -> x < b

BoundKeywords ==
  {"minimum", "maximum", "exclusiveMinimum", "exclusiveMaximum",
   "minLength", "maxLength", "minItems", "maxItems"}

RECURSIVE Valid(_, _)
Valid(schema, inst) ==
  LET f == schema.m IN
  /\ HasKey(f, "type") => TypesOf(inst) \cap DeclaredTypes(f["type"]) # {}
  /\ HasKey(f, "enum") => \E j \in 1..Len(f["enum"].e) : f["enum"].e[j] = inst
  /\ HasKey(f, "const") => f["const"] = inst
  /\ \A key \in BoundKeywords :
       (HasKey(f, key) /\ BoundApplies(key, inst))
         => BoundHolds(key, f[key].n, Measure(key, inst))
  /\ (HasKey(f, "required") /\ inst.t = "obj")
       => StringsOf(f["required"].e) \subseteq DOMAIN inst.m
  /\ (HasKey(f, "properties") /\ inst.t = "obj")
       => \A k \in (DOMAIN inst.m) \cap (DOMAIN f["properties"].m) :
            Valid(f["properties"].m[k], inst.m[k])
  /\ (HasKey(f, "additionalProperties") /\ inst.t = "obj")
       => \A k \in (DOMAIN inst.m) \ (IF HasKey(f, "properties")
                                        THEN DOMAIN f["properties"].m ELSE {}) :
            IF f["additionalProperties"].t = "bool"
              THEN f["additionalProperties"].n = 1
              ELSE Valid(f["additionalProperties"], inst.m[k])
  /\ (HasKey(f, "items") /\ inst.t = "arr")
       => \A j \in 1..Len(inst.e) : Valid(f["items"], inst.e[j])

\* The instances the schemas are tried on.
Instances ==
  { Null, Bool(TRUE), Num(-1), Num(0), Num(1), Num(6), Str(""), Str("a"), Str("b"),
    Obj(EmptyMap), O1("a", Str("a")), O1("a", Num(1)), O1("b", Num(1)),
    Arr(<<>>), Arr(<<Num(1)>>), Arr(<<Str("a")>>) }

\* The schema uses only the keywords in keys, at every schema position.
RECURSIVE BuiltFrom(_, _)
BuiltFrom(schema, keys) ==
  /\ schema.t = "obj"
  /\ DOMAIN schema.m \subseteq keys
  /\ HasKey(schema.m, "properties")
       => /\ schema.m["properties"].t = "obj"
          /\ \A k \in DOMAIN schema.m["properties"].m :
               BuiltFrom(schema.m["properties"].m[k], keys)
  /\ HasKey(schema.m, "items") => BuiltFrom(schema.m["items"], keys)
  /\ HasKey(schema.m, "additionalProperties")
       => \/ schema.m["additionalProperties"].t = "bool"
          \/ BuiltFrom(schema.m["additionalProperties"], keys)

InputKeywords == {"type", "enum", "const", "required", "properties", "items"} \cup BoundKeywords

\* The schemas the caller passed, as trees.
TargetTree == Deref(heap0[0], target, MaxDepth)
CandidateTree == Deref(heap0[0], candidate, MaxDepth)

\* C5: input compatibility is sound: when InputCompatible(T, C) returns
\* true, every instance T accepts is accepted by C (schemas built from type,
\* enum, const, required, properties, items and the bounds).
C5_InputSound ==
  \A i \in Normalizers :
    (/\ Solo(i) /\ op[i].name = "InputCompatible"
     /\ result[i].k = "ok" /\ result[i].v = Bool(TRUE)
     /\ BuiltFrom(TargetTree, InputKeywords) /\ BuiltFrom(CandidateTree, InputKeywords))
      => \A inst \in Instances : Valid(TargetTree, inst) => Valid(CandidateTree, inst)

\* C6: output compatibility is sound: when OutputCompatible(T, C) returns
\* true, every instance C accepts is accepted by T (schemas built from type,
\* enum, const, required, properties, additionalProperties, items and the
\* bounds).
C6_OutputSound ==
  \A i \in Normalizers :
    (/\ Solo(i) /\ op[i].name = "OutputCompatible"
     /\ result[i].k = "ok" /\ result[i].v = Bool(TRUE)
     /\ BuiltFrom(TargetTree, InputKeywords \cup {"additionalProperties"})
     /\ BuiltFrom(CandidateTree, InputKeywords \cup {"additionalProperties"}))
      => \A inst \in Instances : Valid(CandidateTree, inst) => Valid(TargetTree, inst)

\* The keys a normalized schema must not have.
RemovedKeywords == {"$ref", "$defs", "allOf"} \cup annotationKeywords

\* The removed keys found at the schema positions of a returned tree.
RECURSIVE KeysLeft(_)
KeysLeft(v) ==
  IF v.t # "obj" THEN {}
  ELSE ((DOMAIN v.m) \cap RemovedKeywords)
       \cup (IF HasKey(v.m, "properties") /\ v.m["properties"].t = "obj"
               THEN UNION { KeysLeft(v.m["properties"].m[k]) :
                            k \in DOMAIN v.m["properties"].m }
               ELSE {})
       \cup UNION { IF HasKey(v.m, key) THEN KeysLeft(v.m[key]) ELSE {} :
                    key \in {"items", "additionalProperties"} }
       \cup UNION { IF HasKey(v.m, key) /\ v.m[key].t = "arr"
                      THEN UNION { KeysLeft(v.m[key].e[j]) : j \in 1..Len(v.m[key].e) }
                      ELSE {} :
                    key \in {"oneOf", "anyOf"} }

\* C7: a schema returned by Normalize has, at no schema position, any of
\* $ref, $defs, allOf or an annotation key.
C7_OutputClean ==
  \A i \in Normalizers :
    (pc[i] = "done" /\ op[i].name = "Normalize" /\ result[i].k = "ok")
      => KeysLeft(result[i].v) = {}

----------------------------------------------------------------------------
(* Properties that compare a call with another run of the same call.  The   *)
(* other run is computed from the heap it would start in.                   *)

\* What the call named by o (a method and its argument) can return when it
\* starts in heap h.
Returns(o, h) ==
  IF o.name = "Normalize"
    THEN { Observe(x) :
             x \in NormalizeOutcomes(CallState(h), IF o.arg = "target" THEN target
                                                                       ELSE candidate) }
    ELSE { Observe(decided(x, IF o.name = "InputCompatible"
                                THEN inputCompatible(normalized(x, 1), normalized(x, 2))
                                ELSE outputCompatible(normalized(x, 1), normalized(x, 2)))) :
             x \in normalizeEach(CallState(h), <<target, candidate>>, <<>>) }

\* Tree b is tree a with the variants of its oneOf / anyOf array permuted.
Permuted(a, b) ==
  /\ a.t = "obj" /\ b.t = "obj" /\ DOMAIN a.m = DOMAIN b.m
  /\ \E key \in {"oneOf", "anyOf"} :
       /\ DOMAIN a.m = {key}
       /\ a.m[key].t = "arr" /\ b.m[key].t = "arr"
       /\ Len(a.m[key].e) = Len(b.m[key].e)
       /\ a.m[key].e # b.m[key].e
       /\ \E f \in Permutations(1..Len(a.m[key].e)) :
            \A j \in 1..Len(a.m[key].e) : b.m[key].e[j] = a.m[key].e[f[j]]

\* C8: union ordering is canonical: Normalize returns results with equal
\* canonical JSON for a schema and for the same schema with the variants of
\* its oneOf / anyOf array permuted.
C8_PermutationInvariant ==
  \A i \in Normalizers :
    (/\ Solo(i) /\ op[i] = [name |-> "Normalize", arg |-> "target"] /\ result[i].k = "ok"
     /\ Permuted(TargetTree, CandidateTree))
      => \A r \in Returns([name |-> "Normalize", arg |-> "candidate"], heap0[i]) :
           r.k = "ok" => Marshal(r.v) = Marshal(result[i].v)

\* C9: the engine is deterministic: a call returns the one outcome that
\* every execution of it on the same inputs returns.
C9_Deterministic ==
  \A i \in Normalizers : pc[i] = "done" => Returns(op[i], heap0[i]) = {result[i]}

\* C10: calls on distinct instances that share Root do not interfere: each
\* returns a result it returns when it runs alone, on the documents as the
\* caller built them.
C10_NoInterference ==
  \A i \in Normalizers : pc[i] = "done" => result[i] \in Returns(op[i], heap0[0])

----------------------------------------------------------------------------
(* Properties of canonicaljson.Marshal, over the calls made so far.  The   *)
(* document changes by reordering only, so all calls of a behaviour concern *)
(* documents that differ in the order of object members at most.           *)

TextCalls == { k \in 1..Len(calls) : calls[k].how = "text" }

\* No object of the document has two members of one name.
RECURSIVE DistinctNames(_)
DistinctNames(d) ==
  CASE d.t = "arr" -> \A j \in 1..Len(d.e) : DistinctNames(d.e[j])
    [] d.t = "members" ->
         /\ \A j \in 1..Len(d.e) : DistinctNames(d.e[j].m[1])
         /\ \A j, k \in 1..Len(d.e) : d.e[j].e = d.e[k].e => j = k
    [] OTHER -> TRUE

\* The canonical bytes of the elements of an array, joined by commas.
RECURSIVE ElementsJoined(_, _, _)
ElementsJoined(q, i, style) ==
  IF i > Len(q) THEN <<>>
  ELSE (IF i > 1 THEN <<44>> ELSE <<>>) \o MarshalJSON(TextOf(q[i], style)).b
       \o ElementsJoined(q, i + 1, style)

\* The canonical bytes of an array are those of its elements, in the order
\* of the array.
ArrayOrderKept ==
  \A k \in TextCalls :
    (calls[k].res.ok /\ calls[k].doc.t = "arr")
      => calls[k].res.b = <<91>> \o ElementsJoined(calls[k].doc.e, 1, calls[k].style) \o <<93>>

\* C11: key-order invariance: for two JSON documents that differ only in
\* the order of object members, at any depth, Marshal returns identical
\* bytes (or fails for both); the order of array elements is preserved.
C11_KeyOrderInvariant ==
  /\ \A j, k \in TextCalls : calls[j].style = calls[k].style => calls[j].res = calls[k].res
  /\ ArrayOrderKept

\* C11, amended: the same, for documents in which no object has two members
\* of one name.
C11_KeyOrderInvariantDistinctNames ==
  /\ \A j, k \in TextCalls :
       (calls[j].style = calls[k].style /\ DistinctNames(calls[j].doc))
         => calls[j].res = calls[k].res
  /\ ArrayOrderKept

\* Two calls have succeeded on documents whose top-level members are in the
\* same order and whose nested objects, inside an array, are not.
C11_Witness ==
  \E j, k \in TextCalls :
    /\ calls[j].style = calls[k].style /\ calls[j].res.ok /\ calls[k].res.ok
    /\ calls[j].doc.t = "members" /\ DistinctNames(calls[j].doc)
    /\ calls[j].doc # calls[k].doc
    /\ \A x \in 1..Len(calls[j].doc.e) : calls[j].doc.e[x].e = calls[k].doc.e[x].e
    /\ \E x \in 1..Len(calls[j].doc.e) : calls[j].doc.e[x].m[1].t = "arr"

\* C12: Marshal is idempotent: Marshal of the bytes a successful call
\* returned succeeds and returns the same bytes.
C12_Idempotent ==
  \A k \in 1..Len(calls) :
    calls[k].how = "again" => calls[k].res = calls[calls[k].of].res

\* Bytes that differ from the text they were made from have been
\* canonicalized again.
C12_Witness ==
  \E k \in 1..Len(calls) :
    /\ calls[k].how = "again" /\ calls[k].res.ok
    /\ calls[calls[k].of].how = "text"
    /\ calls[k].res.b # TextOf(calls[calls[k].of].doc, calls[calls[k].of].style)
    /\ calls[k].doc.t \in {"members", "arr"}

\* The UTF-16 code units of a string of code points.
RECURSIVE CodeUnits(_)
CodeUnits(rs) ==
  IF rs = <<>> THEN <<>>
  ELSE (IF Head(rs) > 65535
          THEN <<55296 + ((Head(rs) - 65536) \div 1024), 56320 + ((Head(rs) - 65536) % 1024)>>
          ELSE <<Head(rs)>>)
       \o CodeUnits(Tail(rs))

\* a comes strictly before b in lexicographic order; a proper prefix
\* comes before its extensions.
Precedes(a, b) ==
  \E i \in 1..Len(b) :
    /\ \A j \in 1..(i - 1) : j <= Len(a) /\ a[j] = b[j]
    /\ i = Len(a) + 1 \/ (i <= Len(a) /\ a[i] < b[i])

\* The first position at which two distinct strings differ.
FirstDifference(a, b) ==
  CHOOSE i \in 1..(Len(a) + Len(b) + 1) :
    /\ \A j \in 1..(i - 1) : j <= Len(a) /\ j <= Len(b) /\ a[j] = b[j]
    /\ i > Len(a) \/ i > Len(b) \/ a[i] # b[i]

\* The first differing character of a is outside the BMP and that of b is
\* in U+E000..U+FFFF.
AstralAgainstHighBMP(a, b) ==
  LET i == FirstDifference(a, b) IN
  /\ a # b /\ i <= Len(a) /\ i <= Len(b)
  /\ a[i] > 65535 /\ b[i] >= 57344 /\ b[i] <= 65535

\* The member names of every object of a parse tree are in strictly
\* ascending order of their UTF-16 code units.
RECURSIVE NamesAscending(_)
NamesAscending(p) ==
  CASE p.t = "arr" -> \A j \in 1..Len(p.e) : NamesAscending(p.e[j])
    [] p.t = "members" ->
         /\ \A j \in 1..Len(p.e) : NamesAscending(p.e[j].m[1])
         /\ \A j \in 1..(Len(p.e) - 1) : Precedes(CodeUnits(p.e[j].e), CodeUnits(p.e[j + 1].e))
         /\ \A j, k \in 1..Len(p.e) : AstralAgainstHighBMP(p.e[j].e, p.e[k].e) => j < k
    [] OTHER -> TRUE

\* The bytes a call returned, read as JSON text with the members in the
\* order of the bytes.
Canonical(k) == parseDocument(calls[k].res.b).v

\* C13: in every canonical object the member names are in strictly
\* ascending lexicographic order of their UTF-16 code units (a proper
\* prefix first); a name whose first differing character is outside the BMP
\* comes before one whose differing character is in U+E000..U+FFFF.
C13_NamesInUTF16Order ==
  \A k \in 1..Len(calls) : calls[k].res.ok => NamesAscending(Canonical(k))

\* A canonical object has a name outside the BMP directly before a name in
\* U+E000..U+FFFF: code point order and UTF-8 order would exchange them.
C13_Witness ==
  \E k \in 1..Len(calls) :
    /\ calls[k].res.ok /\ Canonical(k).t = "members"
    /\ \E j \in 1..(Len(Canonical(k).e) - 1) :
         AstralAgainstHighBMP(Canonical(k).e[j].e, Canonical(k).e[j + 1].e)

LowerHex(d) == IF d < 10 THEN 48 + d ELSE 97 + (d - 10)

\* The bytes the rule of the specification gives for one character.
RuleEscape(r) ==
  CASE r = 92 -> <<92, 92>>
    [] r = 34 -> <<92, 34>>
    [] r = 8 -> <<92, 98>>
    [] r = 9 -> <<92, 116>>
    [] r = 10 -> <<92, 110>>
    [] r = 12 -> <<92, 102>>
    [] r = 13 -> <<92, 114>>
    [] r \in (0..31) \ {8, 9, 10, 12, 13} -> <<92, 117, 48, 48, LowerHex(r \div 16), LowerHex(r % 16)>>
    [] OTHER -> utf8(<<r>>)

RECURSIVE RuleEscapes(_)
RuleEscapes(rs) == IF rs = <<>> THEN <<>> ELSE RuleEscape(Head(rs)) \o RuleEscapes(Tail(rs))

RuleString(rs) == <<34>> \o RuleEscapes(rs) \o <<34>>

\* The canonical bytes the rule gives for a string, a boolean, or an object
\* of one member with such a value.
RuleBytes(d) ==
  CASE d.t = "text" -> RuleString(d.e)
    [] d.t = "bool" -> IF d.n = 1 THEN <<116, 114, 117, 101>> ELSE <<102, 97, 108, 115, 101>>
    [] d.t = "members" ->
         <<123>> \o RuleString(d.e[1].e) \o <<58>>
         \o (IF d.e[1].m[1].t = "text" THEN RuleString(d.e[1].m[1].e)
             ELSE IF d.e[1].m[1].n = 1 THEN <<116, 114, 117, 101>>
             ELSE <<102, 97, 108, 115, 101>>)
         \o <<125>>

\* The documents RuleBytes is defined for.
StringDocument(d) ==
  \/ d.t = "text"
  \/ d.t = "members" /\ Len(d.e) = 1 /\ d.e[1].m[1].t \in {"text", "bool"}

\* C14: canonical string escaping, for every character of member names and
\* values: \\ and \" for backslash and quote; \b \t \n \f \r for 08, 09, 0A,
\* 0C, 0D; \u00XX in lowercase hex for the other characters below 20; every
\* other character literally.
C14_StringEscaping ==
  \A k \in 1..Len(calls) :
    (calls[k].how \in {"text", "value"} /\ StringDocument(calls[k].doc))
      => calls[k].res.ok /\ calls[k].res.b = RuleBytes(calls[k].doc)

\* A name and a value with characters of all five kinds have been encoded,
\* from text and from a Go value.
C14_Witness ==
  \E j, k \in 1..Len(calls) :
    /\ calls[j].how = "text" /\ calls[k].how = "value"
    /\ calls[j].doc = DocEscapes /\ calls[k].doc = DocEscapes
    /\ calls[j].res.ok /\ calls[k].res.ok

----------------------------------------------------------------------------
(* Properties of the decider's rules.  They are stated on the normalized   *)
(* target and candidate of a call, which the call does not return: these   *)
(* are computed again from the heap the call started in.                   *)

\* The normalized target and candidate of the call instance i has made, one
\* pair for every way the two normalizations can turn out.
Decided(i) ==
  { [t |-> normalized(o, 1), c |-> normalized(o, 2)] :
      o \in { x \in normalizeEach(CallState(heap0[i]), <<target, candidate>>, <<>>) :
                x.k = "ok" } }

\* Instance i alone has called the method and it returned a verdict.
Verdict(i, name) == Solo(i) /\ op[i].name = name /\ result[i].k = "ok"
Accepted(i, name) == Verdict(i, name) /\ result[i].v = Bool(TRUE)
Rejected(i, name) == Verdict(i, name) /\ result[i].v = Bool(FALSE)

\* The target or the candidate of the call was written as this document.
TargetIs(doc) == TargetTree = doc
CandidateIs(doc) == CandidateTree = doc

IsTop(f) == DOMAIN f = {}

\* The Top rules for one pair and the verdict on it.
TopRule(t, c, isInput, verdict) ==
  IF isInput
    THEN /\ IsTop(c) => verdict
         /\ (IsTop(t) /\ verdict) => IsTop(c)
    ELSE /\ IsTop(t) => verdict
         /\ (IsTop(c) /\ verdict) => IsTop(t)

\* The pairs directly below the pair (t, c) that the decider recurses into:
\* the schemas of a property both sides declare, the items of both sides,
\* the additionalProperties schemas and the union variants.
PairsBelow(t, c, isInput) ==
  (IF hasType(t, "object") \/ hasType(c, "object")
     THEN { [t |-> asMap(t, "properties")[p].m, c |-> asMap(c, "properties")[p].m] :
              p \in { x \in DOMAIN asMap(t, "properties") \cap DOMAIN asMap(c, "properties") :
                        IsMap(asMap(t, "properties"), x) /\ IsMap(asMap(c, "properties"), x) } }
          \cup (IF ~isInput /\ IsMap(t, "additionalProperties")
                     /\ IsMap(c, "additionalProperties")
                  THEN {[t |-> t["additionalProperties"].m, c |-> c["additionalProperties"].m]}
                  ELSE {})
     ELSE {})
  \cup (IF hasType(t, "array") \/ hasType(c, "array")
          THEN {[t |-> asMap(t, "items"), c |-> asMap(c, "items")]}
          ELSE {})
  \cup (IF unionVariants(t).ok /\ unionVariants(c).ok
          THEN { [t |-> unionVariants(t).vars[a], c |-> unionVariants(c).vars[b]] :
                   a \in 1..Len(unionVariants(t).vars), b \in 1..Len(unionVariants(c).vars) }
          ELSE {})

RECURSIVE NestedPairs(_, _, _)
NestedPairs(t, c, isInput) ==
  PairsBelow(t, c, isInput)
    \cup UNION { NestedPairs(n.t, n.c, isInput) : n \in PairsBelow(t, c, isInput) }

TopRulesOf(i, name, isInput) ==
  Verdict(i, name)
    => \A d \in Decided(i) :
         /\ TopRule(d.t, d.c, isInput, result[i].v = Bool(TRUE))
         /\ \A n \in NestedPairs(d.t, d.c, isInput) :
              TopRule(n.t, n.c, isInput, compat(n.t, n.c, isInput))

\* C15: Top rules, Top being a schema that normalizes to the empty object:
\* InputCompatible(T, C) is true whenever C is Top and, when T is Top, only
\* if C is Top; OutputCompatible(T, C) is true whenever T is Top and, when C
\* is Top, only if T is Top; and the verdict on every nested pair the
\* decider recurses into (properties, items with absent items as Top,
\* additionalProperties schemas, union variants) follows the same rules.
C15_TopRules ==
  \A i \in Normalizers :
    /\ TopRulesOf(i, "InputCompatible", TRUE)
    /\ TopRulesOf(i, "OutputCompatible", FALSE)

\* A target whose property schema is Top only after normalization, against
\* a candidate whose schema of that property is not Top: input is refused.
C15_Witness ==
  \E i \in Normalizers :
    /\ Rejected(i, "InputCompatible")
    /\ TargetTree # Top
    /\ \E d \in Decided(i) :
         /\ ~IsTop(d.t) /\ ~IsTop(d.c)
         /\ \E n \in NestedPairs(d.t, d.c, TRUE) :
              /\ IsTop(n.t) /\ ~IsTop(n.c)
              /\ HasKey(TargetTree.m, "properties")
              /\ TargetTree.m["properties"] = O1("p", Titled)

\* The types a normalized schema declares; a schema without "type" is
\* untyped and stands for all types.
Untyped(f) == ~HasKey(f, "type")
TypesDeclared(f) == DeclaredTypes(f["type"])

\* The types of a are a subset of those of b: an untyped side is a subset
\* only of an untyped side, every typed side is a subset of an untyped one,
\* and "integer" in a is covered by "number" in b.
TypesWithin(a, b) ==
  IF Untyped(a) THEN Untyped(b)
  ELSE \/ Untyped(b)
       \/ \A k \in TypesDeclared(a) :
            k \in TypesDeclared(b) \/ (k = "integer" /\ "number" \in TypesDeclared(b))

\* C16: type-set rule for schemas that are not Top: InputCompatible(T, C) is
\* true only if Ttypes is a subset of Ctypes and OutputCompatible(T, C) only
\* if Ctypes is a subset of Ttypes (absent type = all types; "integer" is
\* covered by "number", never "number" by "integer"); T {type:integer},
\* C {type:number} is input-compatible and not output-compatible.
C16_TypeSetRule ==
  \A i \in Normalizers :
    /\ Accepted(i, "InputCompatible")
         => \A d \in Decided(i) : (~IsTop(d.t) /\ ~IsTop(d.c)) => TypesWithin(d.t, d.c)
    /\ Accepted(i, "OutputCompatible")
         => \A d \in Decided(i) : (~IsTop(d.t) /\ ~IsTop(d.c)) => TypesWithin(d.c, d.t)
    /\ (TargetIs(Typed("integer")) /\ CandidateIs(Typed("number")))
         => /\ Verdict(i, "InputCompatible") => result[i].v = Bool(TRUE)
            /\ Verdict(i, "OutputCompatible") => result[i].v = Bool(FALSE)

\* T {type:integer} against C {type:number}: output is refused, because
\* "number" of the candidate is not covered by "integer" of the target.
C16_Witness ==
  \E i \in Normalizers :
    /\ Rejected(i, "OutputCompatible")
    /\ TargetIs(Typed("integer")) /\ CandidateIs(Typed("number"))
    /\ \E d \in Decided(i) :
         TypesDeclared(d.t) = {"integer"} /\ TypesDeclared(d.c) = {"number"}

\* The values a schema's const and enum allow, as canonical JSON; a value
\* must satisfy both keywords when a schema has both.
HasConst(f) == HasKey(f, "const")
HasEnum(f) == HasKey(f, "enum")
Constrained(f) == HasConst(f) \/ HasEnum(f)
ConstValue(f) == canonicalKey(<<>>, f["const"])
EnumValues(f) == { canonicalKey(<<>>, f["enum"].e[j]) : j \in 1..Len(f["enum"].e) }
Allowed(f) ==
  IF HasConst(f) /\ HasEnum(f) THEN {ConstValue(f)} \cap EnumValues(f)
  ELSE IF HasConst(f) THEN {ConstValue(f)}
  ELSE EnumValues(f)

\* Value v is allowed by candidate c: its const equals v, or its enum
\* contains v, or it has neither.
Allows(c, v) ==
  \/ HasConst(c) /\ ConstValue(c) = v
  \/ HasEnum(c) /\ v \in EnumValues(c)
  \/ ~Constrained(c)

EnumAB == Enum(<<Str("a"), Str("b")>>)

\* C17: const/enum rule, values compared by their canonical JSON:
\* InputCompatible(T, C) is true only if every value T's const/enum allows
\* is allowed by C (a const of C covers an enum of T only when that enum has
\* one distinct value); OutputCompatible(T, C) is true only if, whenever T
\* has a const or enum, C has one too and every value C allows is among
\* those T allows.  T {enum:[a,b]}: C {enum:[a]} true, C {enum:[a,c]} false,
\* C unconstrained false.
C17_ConstEnumRule ==
  \A i \in Normalizers :
    /\ Accepted(i, "InputCompatible")
         => \A d \in Decided(i) :
              Constrained(d.t)
                => /\ \A v \in Allowed(d.t) : Allows(d.c, v)
                   /\ (HasEnum(d.t) /\ ~HasConst(d.t) /\ HasConst(d.c))
                        => Cardinality(EnumValues(d.t)) = 1
    /\ Accepted(i, "OutputCompatible")
         => \A d \in Decided(i) :
              Constrained(d.t) => (Constrained(d.c) /\ Allowed(d.c) \subseteq Allowed(d.t))
    /\ (Verdict(i, "OutputCompatible") /\ TargetIs(EnumAB))
         => /\ CandidateIs(Enum(<<Str("a")>>)) => result[i].v = Bool(TRUE)
            /\ CandidateIs(Enum(<<Str("a"), Str("c")>>)) => result[i].v = Bool(FALSE)
            /\ CandidateIs(Typed("string")) => result[i].v = Bool(FALSE)

\* The type set of the schema includes t, an absent type counting as all
\* types.
Includes(f, t) == Untyped(f) \/ t \in TypesDeclared(f)

RequiredOf(f) == IF HasKey(f, "required") THEN StringsOf(f["required"].e) ELSE {}
PropertiesOf(f) == IF HasKey(f, "properties") THEN f["properties"].m ELSE EmptyMap

\* C18: object rule for input: whenever either side's type set includes
\* object, an absent type counting as all types, InputCompatible(T, C) is
\* true only if required(C) is a subset of required(T) and, for every
\* property in both properties(T) and properties(C), the candidate's schema
\* of it is input-compatible with the target's; extra properties in C and
\* the additionalProperties of either side do not make the result false.
C18_ObjectRuleInput ==
  \A i \in Normalizers :
    /\ Accepted(i, "InputCompatible")
         => \A d \in Decided(i) :
              (Includes(d.t, "object") \/ Includes(d.c, "object"))
                => /\ RequiredOf(d.c) \subseteq RequiredOf(d.t)
                   /\ \A p \in DOMAIN PropertiesOf(d.t) \cap DOMAIN PropertiesOf(d.c) :
                        inputCompatible(PropertiesOf(d.t)[p].m, PropertiesOf(d.c)[p].m)
    /\ (/\ Verdict(i, "InputCompatible")
        /\ TargetIs(ObjectWith("properties", O1("p", Typed("integer"))))
        /\ CandidateIs(O3("type", Str("object"),
                           "properties", O2("p", Typed("number"), "q", Typed("string")),
                           "additionalProperties", Bool(FALSE))))
         => result[i].v = Bool(TRUE)

\* The schema declares type t.
Declares(f, t) == ~Untyped(f) /\ t \in TypesDeclared(f)

AdditionalFalse(f) ==
  HasKey(f, "additionalProperties") /\ f["additionalProperties"] = Bool(FALSE)
AdditionalSchema(f) ==
  HasKey(f, "additionalProperties") /\ f["additionalProperties"].t = "obj"

\* C19: object rule for output, where a side declares type object:
\* OutputCompatible(T, C) is false if required(T) is not a subset of
\* required(C); false if C declares a property that is not in
\* properties(T) while T.additionalProperties is false; false if
\* T.additionalProperties is false and C.additionalProperties is not the
\* boolean false; when T.additionalProperties is a schema, true only if
\* C.additionalProperties is false or a schema output-compatible with it;
\* and true only if the properties on both sides are pairwise
\* output-compatible.
C19_ObjectRuleOutput ==
  \A i \in Normalizers :
    Accepted(i, "OutputCompatible")
      => \A d \in Decided(i) :
           (Declares(d.t, "object") \/ Declares(d.c, "object"))
             => /\ RequiredOf(d.t) \subseteq RequiredOf(d.c)
                /\ AdditionalFalse(d.t)
                     => /\ DOMAIN PropertiesOf(d.c) \subseteq DOMAIN PropertiesOf(d.t)
                        /\ AdditionalFalse(d.c)
                /\ AdditionalSchema(d.t)
                     => \/ AdditionalFalse(d.c)
                        \/ /\ AdditionalSchema(d.c)
                           /\ outputCompatible(d.t["additionalProperties"].m,
                                               d.c["additionalProperties"].m)
                /\ \A p \in DOMAIN PropertiesOf(d.t) \cap DOMAIN PropertiesOf(d.c) :
                     outputCompatible(PropertiesOf(d.t)[p].m, PropertiesOf(d.c)[p].m)

\* A target that closes its properties with additionalProperties false and
\* a candidate that does the same and declares the same property with a
\* narrower schema: output is accepted.
C19_Witness ==
  \E i \in Normalizers :
    /\ Accepted(i, "OutputCompatible")
    /\ \E d \in Decided(i) :
         /\ Declares(d.t, "object") /\ Declares(d.c, "object")
         /\ AdditionalFalse(d.t) /\ AdditionalFalse(d.c)
         /\ DOMAIN PropertiesOf(d.t) = {"p"} /\ DOMAIN PropertiesOf(d.c) = {"p"}
         /\ PropertiesOf(d.t)["p"] # PropertiesOf(d.c)["p"]

\* The bounds a schema puts on numbers: a value and whether it is exclusive.
BoundsOf(f, inclusive, exclusive) ==
  (IF HasKey(f, inclusive) THEN {[v |-> f[inclusive].n, x |-> FALSE]} ELSE {})
    \cup (IF HasKey(f, exclusive) THEN {[v |-> f[exclusive].n, x |-> TRUE]} ELSE {})

\* Lower bound a is at least as tight as lower bound b (upper bound a as
\* upper bound b); at equal values an exclusive bound is the tighter one.
LowerAtLeast(a, b) == a.v > b.v \/ (a.v = b.v /\ (a.x \/ ~b.x))
UpperAtLeast(a, b) == a.v < b.v \/ (a.v = b.v /\ (a.x \/ ~b.x))

HasLower(f) == BoundsOf(f, "minimum", "exclusiveMinimum") # {}
HasUpper(f) == BoundsOf(f, "maximum", "exclusiveMaximum") # {}

\* The effective bounds: the stricter of the inclusive and the exclusive.
Lower(f) ==
  CHOOSE a \in BoundsOf(f, "minimum", "exclusiveMinimum") :
    \A b \in BoundsOf(f, "minimum", "exclusiveMinimum") : LowerAtLeast(a, b)
Upper(f) ==
  CHOOSE a \in BoundsOf(f, "maximum", "exclusiveMaximum") :
    \A b \in BoundsOf(f, "maximum", "exclusiveMaximum") : UpperAtLeast(a, b)

Numeric(d) ==
  \/ Declares(d.t, "number") \/ Declares(d.t, "integer")
  \/ Declares(d.c, "number") \/ Declares(d.c, "integer")

\* C20: numeric bound rule, when a side declares number or integer: the
\* effective lower (upper) bound is the stricter of minimum and
\* exclusiveMinimum (maximum and exclusiveMaximum), an exclusive bound being
\* stricter at equal values.  InputCompatible requires, when both sides
\* have a lower (upper) bound, candidate lower <= target lower (candidate
\* upper >= target upper), and an absent candidate bound never fails;
\* OutputCompatible requires, for each bound of the target, a candidate
\* bound at least as tight.  T {type:number, minimum:0} against
\* C {type:number, exclusiveMinimum:0}: input false, output true.
C20_NumericBoundRule ==
  \A i \in Normalizers :
    /\ Accepted(i, "InputCompatible")
         => \A d \in { x \in Decided(i) : Numeric(x) } :
              /\ (HasLower(d.t) /\ HasLower(d.c)) => LowerAtLeast(Lower(d.t), Lower(d.c))
              /\ (HasUpper(d.t) /\ HasUpper(d.c)) => UpperAtLeast(Upper(d.t), Upper(d.c))
    /\ Accepted(i, "OutputCompatible")
         => \A d \in { x \in Decided(i) : Numeric(x) } :
              /\ HasLower(d.t) => (HasLower(d.c) /\ LowerAtLeast(Lower(d.c), Lower(d.t)))
              /\ HasUpper(d.t) => (HasUpper(d.c) /\ UpperAtLeast(Upper(d.c), Upper(d.t)))
    /\ (TargetIs(NumberWith("minimum", Num(0)))
          /\ CandidateIs(NumberWith("exclusiveMinimum", Num(0))))
         => /\ Verdict(i, "InputCompatible") => result[i].v = Bool(FALSE)
            /\ Verdict(i, "OutputCompatible") => result[i].v = Bool(TRUE)
    /\ (/\ Verdict(i, "InputCompatible")
        /\ TargetIs(O3("type", Str("number"), "minimum", Num(0), "maximum", Num(5)))
        /\ CandidateIs(Typed("number")))
         => result[i].v = Bool(TRUE)

\* T {type:number, minimum:0} against C {type:number, exclusiveMinimum:0}:
\* output is accepted, the exclusive bound being the tighter one at 0.
C20_Witness ==
  \E i \in Normalizers :
    /\ Accepted(i, "OutputCompatible")
    /\ TargetIs(NumberWith("minimum", Num(0)))
    /\ CandidateIs(NumberWith("exclusiveMinimum", Num(0)))
    /\ \E d \in Decided(i) :
         /\ Lower(d.t) = [v |-> 0, x |-> FALSE]
         /\ Lower(d.c) = [v |-> 0, x |-> TRUE]

\* The schema carries a union, and the variants of its union keys.
Union(f) == HasKey(f, "oneOf") \/ HasKey(f, "anyOf")
Variants(f) ==
  UNION { IF HasKey(f, key) THEN { f[key].e[j].m : j \in 1..Len(f[key].e) } ELSE {} :
          key \in {"oneOf", "anyOf"} }

\* C21: union rule, for sides that are not Top: when both carry a union,
\* InputCompatible(T, C) is true only if every target variant v has a
\* candidate variant w with v input-compatible to w, and
\* OutputCompatible(T, C) only if every candidate variant w has a target
\* variant v with w output-compatible to v; when exactly one side carries a
\* union, the result is false in both directions.
C21_UnionRule ==
  \A i \in Normalizers :
    (Accepted(i, "InputCompatible") \/ Accepted(i, "OutputCompatible"))
    => \A d \in { x \in Decided(i) : ~IsTop(x.t) /\ ~IsTop(x.c) } :
      /\ (Accepted(i, "InputCompatible") /\ Union(d.t) /\ Union(d.c))
           => \A v \in Variants(d.t) : \E w \in Variants(d.c) : inputCompatible(v, w)
      /\ (Accepted(i, "OutputCompatible") /\ Union(d.t) /\ Union(d.c))
           => \A w \in Variants(d.c) : \E v \in Variants(d.t) : outputCompatible(v, w)
      /\ Union(d.t) = Union(d.c)

\* T oneOf [integer, string] against C oneOf [number, string]: input is
\* accepted, "integer" finding "number" and "string" finding "string".
C21_Witness ==
  \E i \in Normalizers :
    /\ Accepted(i, "InputCompatible")
    /\ \E d \in Decided(i) :
         /\ Union(d.t) /\ Union(d.c)
         /\ Cardinality(Variants(d.t)) = 2 /\ Cardinality(Variants(d.c)) = 2
         /\ Variants(d.t) # Variants(d.c)

----------------------------------------------------------------------------
(* Properties of Normalize, stated on the schema argument as the caller    *)
(* wrote it.                                                                *)

\* The schema argument of the Normalize call on instance i, as a tree.
ArgTree(i) == Deref(heap0[0], Arg(i), MaxDepth)

\* Instance i alone has called Normalize and the call has returned.
Normalized(i) == Solo(i) /\ op[i].name = "Normalize"

\* The type declaration is a string or an array of strings.
TypeDeclared(v) ==
  \/ v.t = "str"
  \/ v.t = "arr" /\ \A j \in 1..Len(v.e) : v.e[j].t = "str"

\* The schema is an allOf of branches written inline that declare types and
\* numeric bounds only.
AllOfOfTypes(tree) ==
  /\ tree.t = "obj" /\ DOMAIN tree.m = {"allOf"}
  /\ tree.m["allOf"].t = "arr"
  /\ \A j \in 1..Len(tree.m["allOf"].e) :
       LET b == tree.m["allOf"].e[j] IN
       /\ b.t = "obj"
       /\ DOMAIN b.m \subseteq {"type", "minimum", "maximum"}
       /\ HasKey(b.m, "type") => TypeDeclared(b.m["type"])

\* The type sets of the branches that declare a type, in branch order.
IsTyped(b) == HasKey(b.m, "type")
BranchTypes(tree) ==
  LET typed == SelectSeq(tree.m["allOf"].e, IsTyped)
  IN [j \in 1..Len(typed) |-> DeclaredTypes(typed[j].m["type"])]

\* What a type set accepts of the numbers: all (2), the integers (1), none.
NumericLevel(S) == IF "number" \in S THEN 2 ELSE IF "integer" \in S THEN 1 ELSE 0

\* The intersection of two type sets.
TypeMeet(A, B) ==
  ((A \cap B) \ {"number", "integer"})
    \cup (IF NumericLevel(A) = 2 /\ NumericLevel(B) = 2 THEN {"number"}
          ELSE IF NumericLevel(A) >= 1 /\ NumericLevel(B) >= 1 THEN {"integer"}
          ELSE {})

RECURSIVE TypeMeetAll(_)
TypeMeetAll(q) ==
  IF Len(q) = 1 THEN q[1]
  ELSE TypeMeet(TypeMeetAll(SubSeq(q, 1, Len(q) - 1)), q[Len(q)])

----------------------------------------------------------------------------
(* Properties of reference resolution, stated on the trace of a call: the  *)
(* resolutions it made, the calls of the fetcher and the removals from the *)
(* cycle set, in the order they happened.                                  *)

\* The key is that of a fragment-only reference; of a reference with a
\* relative path that no Base resolves (without a Base the key is the
\* reference as written).
FragmentOnly(key) == key = "" \/ HasHashPrefix(key)
RelativeNoBase(key) ==
  Base = "" /\ ~FragmentOnly(key) /\ urlParse(key).scheme = ""

\* The message of the RefError a failed test of resolveRef ends the call with.
CauseOf(res) ==
  CASE res = "nobase" -> "relative $ref with no base"
    [] res = "cycle" -> "cycle detected"
    [] res = "nofetcher" -> "external $ref unsupported (no fetcher)"

\* The resolutions that got past the three tests.
PastTests == {"ok", "pointer", "fetcherr", "decode"}

\* The cycle set after the events of a trace: a resolution that succeeds
\* inserts its key, a removal deletes it, nothing else changes the set.
RECURSIVE CycleSetAfter(_)
CycleSetAfter(tr) ==
  IF tr = <<>> THEN {}
  ELSE LET e == tr[Len(tr)]
           before == CycleSetAfter(SubSeq(tr, 1, Len(tr) - 1))
       IN IF e.ev = "resolve" /\ e.res = "ok" THEN before \cup {e.key}
          ELSE IF e.ev = "pop" THEN before \ {e.key}
          ELSE before

\* C23: reference resolution fails closed in a fixed order and without
\* side effects: a $ref with a relative path and no Base fails with
\* RefError "relative $ref with no base"; otherwise a key already active
\* fails with "cycle detected"; otherwise a ref that is not fragment-only
\* fails with "external $ref unsupported" when no fetcher is configured.
\* The fetcher is called only for refs that are not fragment-only, only
\* after those tests pass, once per resolution, and a failed resolution
\* leaves the cycle set as it was.
C23_ResolutionOrder ==
  \A i \in Normalizers :
    /\ \A k \in 1..Len(trace[i]) :
         LET e == trace[i][k] IN
         /\ (e.ev = "resolve" /\ e.res # "parse")
              => /\ IF RelativeNoBase(e.key) THEN e.res = "nobase"
                    ELSE IF e.active THEN e.res = "cycle"
                    ELSE IF ~FragmentOnly(e.key) /\ ~Fetch THEN e.res = "nofetcher"
                    ELSE e.res \in PastTests
                 /\ e.res \in {"nobase", "cycle", "nofetcher"}
                      => /\ result[i].k = "err"
                         /\ result[i].err.kind = "RefError"
                         /\ result[i].err.msg = CauseOf(e.res)
                 /\ (e.res \in PastTests /\ ~FragmentOnly(e.key))
                      <=> (k > 1 /\ trace[i][k - 1].ev = "fetch")
         /\ e.ev = "fetch"
              => /\ k < Len(trace[i])
                 /\ trace[i][k + 1].ev = "resolve"
                 /\ trace[i][k + 1].key = e.key
    /\ result[i].k \in {"ok", "err"} => refStack[i] = CycleSetAfter(trace[i])

\* A call with a fetcher resolves an external reference, the fetcher being
\* called once, and meets the same reference in the fetched document: the
\* second resolution fails with "cycle detected" and no call of the fetcher.
C23_Witness ==
  \E i \in Normalizers :
    /\ Fetch /\ result[i].k = "err" /\ result[i].err.msg = "cycle detected"
    /\ Len(trace[i]) >= 3
    /\ trace[i][1].ev = "fetch"
    /\ trace[i][2].ev = "resolve" /\ trace[i][2].res = "ok" /\ ~FragmentOnly(trace[i][2].key)
    /\ trace[i][3].ev = "resolve" /\ trace[i][3].res = "cycle"
    /\ trace[i][3].key = trace[i][2].key
    /\ refStack[i] = {}

\* The call on instance i has returned to its caller.
Returned(i) == pc[i] = "done" /\ result[i].k \in {"ok", "err"}

\* The cycle set after the first k events of the trace of instance i.
CycleSetAt(i, k) == CycleSetAfter(SubSeq(trace[i], 1, k))

\* The cycle sets with which the normalization of the target can end, when
\* it succeeds: the candidate's normalization starts with them.
SetsAfterTarget(i) ==
  { o.st.rs : o \in { x \in normalizeAt(CallState(heap0[i]), target, "", MaxDepth) :
                        x.k = "ok" } }

\* C24: the cycle set is call-scoped and balanced: a key is inserted when
\* its $ref is resolved and removed when the normalization of the resolved
\* target returns, on every exit path; so the set is empty whenever a
\* top-level call returns, and empty when InputCompatible / OutputCompatible
\* start normalizing the candidate after the target.
C24_CycleSetBalanced ==
  \A i \in Normalizers :
    Returned(i)
      => /\ refStack[i] = {}
         /\ \A k \in 1..Len(trace[i]) :
              /\ (trace[i][k].ev = "resolve" /\ trace[i][k].res = "ok")
                   => \E m \in (k + 1)..Len(trace[i]) :
                        /\ trace[i][m].ev = "pop" /\ trace[i][m].key = trace[i][k].key
                        /\ CycleSetAt(i, m) = CycleSetAt(i, k - 1)
              /\ trace[i][k].ev = "pop"
                   => trace[i][k].active /\ trace[i][k].key \in CycleSetAt(i, k - 1)
         /\ (Solo(i) /\ op[i].name \in {"InputCompatible", "OutputCompatible"})
              => \A rs \in SetsAfterTarget(i) : rs = {}

\* A call resolves a reference, fails inside the resolved target with an
\* error that is not about references, and returns with the key removed.
C24_Witness ==
  \E i \in Normalizers :
    /\ Returned(i) /\ result[i].k = "err" /\ result[i].err.kind = "OutsideProfileError"
    /\ Len(trace[i]) = 2
    /\ trace[i][1].ev = "resolve" /\ trace[i][1].res = "ok"
    /\ trace[i][2].ev = "pop" /\ trace[i][2].key = trace[i][1].key
    /\ refStack[i] = {}

----------------------------------------------------------------------------
(* Properties of allOf flattening, stated on the schema argument as the    *)
(* caller wrote it.                                                        *)

\* The map with content f carries a union.
UnionInside(f) == HasKey(f, "oneOf") \/ HasKey(f, "anyOf")

\* The map with content f has a $ref that the normalizer resolves.
Refers(f) == HasKey(f, "$ref") /\ IsNonEmptyString(f["$ref"])

\* The maps a branch of an allOf stands for at the start of the call on
\* instance i: the branch as written and, when it is a reference that
\* resolves to a map, the target of the reference.
BranchMaps(i, b) ==
  LET h == heap0[i]
      r == resolveRef(CallState(h), h[b.n]["$ref"].s, "")
  IN {h[b.n]} \cup (IF Refers(h[b.n]) /\ r.ok /\ r.v.t = "ref" THEN {r.st.h[r.v.n]} ELSE {})

\* The argument of the call on instance i is an allOf, not hidden by a
\* $ref beside it, and branch j of it carries a union inline or behind its
\* reference.
UnionBranch(i, j) ==
  /\ Arg(i).t = "ref"
  /\ LET f == heap0[i][Arg(i).n] IN
     /\ ~Refers(f) /\ HasKey(f, "allOf") /\ f["allOf"].t = "arr"
     /\ j \in 1..Len(f["allOf"].e)
     /\ f["allOf"].e[j].t = "ref"
     /\ \E g \in BranchMaps(i, f["allOf"].e[j]) : UnionInside(g)

\* C25: Normalize fails with an OutsideProfileError whenever a branch of an
\* allOf contains oneOf or anyOf, whether the branch is written inline or is
\* a $ref whose resolved target contains the union.
C25_UnionInAllOfRejected ==
  \A i \in Normalizers :
    (Normalized(i) /\ UnionBranch(i, 1))
      => result[i].k = "err" /\ result[i].err.kind = "OutsideProfileError"

----------------------------------------------------------------------------
(* Properties of the output of Normalize, stated on the schema returned.   *)

\* The schemas a schema contains: itself, and those at the schema positions
\* of its keywords (properties, additionalProperties, items, oneOf, anyOf).
RECURSIVE SchemasIn(_)
SchemasIn(v) ==
  IF v.t # "obj" THEN {}
  ELSE LET below(k) ==
             IF ~HasKey(v.m, k) THEN {}
             ELSE IF k = "properties" /\ v.m[k].t = "obj"
               THEN UNION { SchemasIn(v.m[k].m[p]) : p \in DOMAIN v.m[k].m }
             ELSE IF k \in {"oneOf", "anyOf"} /\ v.m[k].t = "arr"
               THEN UNION { SchemasIn(v.m[k].e[j]) : j \in 1..Len(v.m[k].e) }
             ELSE IF k \in {"additionalProperties", "items"}
               THEN SchemasIn(v.m[k])
             ELSE {}
       IN {v} \cup UNION { below(k) :
                            k \in {"properties", "additionalProperties", "items",
                                    "oneOf", "anyOf"} }

\* C26: after a successful Normalize, every schema object in the output
\* carries at most one of oneOf and anyOf.
C26_OneUnionForm ==
  \A i \in Normalizers :
    (Normalized(i) /\ result[i].k = "ok")
      => \A s \in SchemasIn(result[i].v) :
           ~(HasKey(s.m, "oneOf") /\ HasKey(s.m, "anyOf"))

----------------------------------------------------------------------------
(* Properties of error propagation.                                        *)

\* CanonicalString returns an error for the value.
Fails(v) == ~CanonicalString(<<>>, v).ok

\* The schema has the one keyword key, const or enum, and a value of it
\* cannot be canonicalized.
FailsUnder(f, key) ==
  /\ DOMAIN f = {key}
  /\ \/ key = "const" /\ Fails(f[key])
     \/ key = "enum" /\ f[key].t = "arr" /\ \E j \in 1..Len(f[key].e) : Fails(f[key].e[j])

\* Both schemas have the one keyword key and nothing else, so that the
\* values of both are canonicalized and compared, and a value of one of
\* them cannot be canonicalized.
ComparedUnder(f, g, key) ==
  /\ DOMAIN f = {key} /\ DOMAIN g = {key}
  /\ FailsUnder(f, key) \/ FailsUnder(g, key)

\* C27: errors are surfaced, never turned into a verdict: when canonicalizing
\* a const or enum value fails while InputCompatible / OutputCompatible
\* decide, or while allOf merges enum / const, the top-level call returns
\* an error.
C27_ErrorsSurfaced ==
  \A i \in Normalizers :
    /\ (Solo(i) /\ op[i].name \in {"InputCompatible", "OutputCompatible"}
           /\ result[i].k = "ok")
         => \A d \in Decided(i) :
              \A key \in {"const", "enum"} : ~ComparedUnder(d.t, d.c, key)
    /\ (Normalized(i) /\ result[i].k = "ok" /\ ArgTree(i).t = "obj"
           /\ DOMAIN ArgTree(i).m = {"allOf"} /\ ArgTree(i).m["allOf"].t = "arr"
           /\ Len(ArgTree(i).m["allOf"].e) = 2
           /\ \A j \in 1..2 : ArgTree(i).m["allOf"].e[j].t = "obj")
         => \A key \in {"const", "enum"} :
              ~ComparedUnder(ArgTree(i).m["allOf"].e[1].m, ArgTree(i).m["allOf"].e[2].m, key)

----------------------------------------------------------------------------
(* Properties of repeated references.                                      *)

\* The key is on the recursion path at event k of the trace of instance i:
\* an earlier resolution of it succeeded and its removal has not happened.
OnPath(i, k, key) ==
  \E m \in 1..(k - 1) :
    /\ trace[i][m].ev = "resolve" /\ trace[i][m].res = "ok" /\ trace[i][m].key = key
    /\ \A n \in (m + 1)..(k - 1) : ~(trace[i][n].ev = "pop" /\ trace[i][n].key = key)

\* The Root of the instances was written as this document.
RootIs(doc) == Deref(heap0[0], Root, MaxDepth) = doc

\* The call on instance i returned this schema.
Gives(i, doc) == result[i].k = "ok" /\ result[i].v = doc

\* Root.a and Root.b of RootGood as Normalize returns them.
GoodA == Types(<<"string">>)
GoodB == Types(<<"number">>)

\* C28: repeated, non-nested use of one $ref target is not a cycle: the same
\* URI at two sibling positions, or in both target and candidate of one
\* compatibility call, is inlined at each place; "cycle detected" is
\* returned only if the URI is active on the current recursion path.
C28_RepeatedRefNotCycle ==
  \A i \in Normalizers :
    Returned(i)
      => /\ \A k \in 1..Len(trace[i]) :
              (trace[i][k].ev = "resolve" /\ trace[i][k].res = "cycle")
                => OnPath(i, k, trace[i][k].key)
         /\ (result[i].k = "err" /\ result[i].err.msg = "cycle detected")
              => \E k \in 1..Len(trace[i]) :
                   /\ trace[i][k].ev = "resolve" /\ trace[i][k].res = "cycle"
                   /\ \A n \in (k + 1)..Len(trace[i]) : trace[i][n].ev = "pop"
         /\ (Normalized(i) /\ RootIs(RootGood))
              => /\ ArgTree(i) = O2("properties", O2("p", RefTo("#/a"), "q", RefTo("#/a")),
                                    "type", Str("object"))
                      => Gives(i, O2("properties", O2("p", GoodA, "q", GoodA),
                                  "type", StrArr(<<"object">>)))
                 /\ ArgTree(i) = O1("oneOf", Arr(<<RefTo("#/b"), RefTo("#/b")>>))
                      => Gives(i, O1("oneOf", Arr(<<GoodB, GoodB>>)))
                 /\ ArgTree(i) = O2("items", RefTo("#/b"), "properties", O1("p", RefTo("#/b")))
                      => Gives(i, O2("items", GoodB, "properties", O1("p", GoodB)))
         /\ (Solo(i) /\ op[i].name \in {"InputCompatible", "OutputCompatible"}
               /\ TargetIs(RefTo("#/a")) /\ CandidateIs(RefTo("#/a")) /\ RootIs(RootGood))
              => Gives(i, Bool(TRUE))

\* One call resolves the same key twice, at sibling positions, and returns
\* a schema: the second resolution finds the key removed.
C28_Witness ==
  \E i \in Normalizers :
    /\ Normalized(i) /\ result[i].k = "ok"
    /\ Len(trace[i]) = 4
    /\ trace[i][1].ev = "resolve" /\ trace[i][1].res = "ok"
    /\ trace[i][2].ev = "pop"
    /\ trace[i][3].ev = "resolve" /\ trace[i][3].res = "ok" /\ ~trace[i][3].active
    /\ trace[i][3].key = trace[i][1].key
    /\ trace[i][4].ev = "pop"

----------------------------------------------------------------------------
(* Algebraic properties of the public methods.                             *)

\* Normalize succeeds on the schema given as the target of the call on
\* instance i.
NormalizeSucceeds(i) ==
  \E o \in NormalizeOutcomes(CallState(heap0[i]), target) : o.k = "ok"

\* C29: compatibility is reflexive: for every schema S on which Normalize
\* succeeds, InputCompatible(S, S) and OutputCompatible(S, S) both return
\* true.
C29_Reflexive ==
  \A i \in Normalizers :
    (Solo(i) /\ op[i].name \in {"InputCompatible", "OutputCompatible"}
       /\ TargetTree = CandidateTree /\ NormalizeSucceeds(i))
      => Gives(i, Bool(TRUE))

\* The argument of the call on instance i is an allOf with the one branch
\* S and nothing beside it, S a map without oneOf / anyOf at its top level.
SingleBranch(i) ==
  /\ Arg(i).t = "ref"
  /\ LET f == heap0[i][Arg(i).n] IN
     /\ DOMAIN f = {"allOf"} /\ f["allOf"].t = "arr" /\ Len(f["allOf"].e) = 1
     /\ f["allOf"].e[1].t = "ref"
     /\ ~UnionInside(heap0[i][f["allOf"].e[1].n])

\* What Normalize(S) returns for that branch S.
BranchAlone(i) ==
  { Observe(o) :
      o \in NormalizeOutcomes(CallState(heap0[i]), heap0[i][Arg(i).n]["allOf"].e[1]) }

\* C30: a single-branch allOf is neutral: for every in-profile schema S
\* without oneOf / anyOf at its top level, Normalize({"allOf":[S]}) returns
\* the same normalized schema as Normalize(S).
C30_SingleBranchNeutral ==
  \A i \in Normalizers :
    (Normalized(i) /\ SingleBranch(i))
      => \A alone \in BranchAlone(i) : alone.k = "ok" => Gives(i, alone.v)
====
